---- MODULE Spec2Model ----
(***************************************************************************)
(* MentorAI retrieval core: the document chunker (scripts/ingest_dayone.py) *)
(* the query intent detector and the source-balanced retrieval engine      *)
(* (app/services/retrieval.py) over the vector store                       *)
(* (app/database/vector_store.py).                                         *)
(*                                                                         *)
(* Strings are sequences of one-character strings, so that len, strip,     *)
(* split, join, lower and the word-boundary patterns are computed the way  *)
(* the Python code computes them.                                          *)
(***************************************************************************)
EXTENDS Integers, Sequences, FiniteSets, TLC

VARIABLES
    text,             \* chunker: the input text
    target_tokens,    \* chunker: target tokens per chunk
    max_tokens,       \* chunker: maximum tokens per chunk
    chunks,           \* chunker: the list returned by chunk_text
    cstage,           \* chunker: "build" while the input grows, "done" after the call
    dquery,           \* detector: the query string
    dpieces,          \* detector: number of pieces the query was built from
    dpriority,        \* detector: the SourcePriority returned, NoValue before the call
    store,            \* vector store: the collection, in insertion order
    rstage,           \* retrieval: "ready" for a call, "returned" while its result is held
    call,             \* retrieval: arguments of the last retrieve call
    searches,         \* retrieval: the vector-store queries of the last call, in order
    result,           \* retrieval: the RetrievalResult of the last call
    initialized,      \* collaborators: the global _vector_store is set
    operation,        \* collaborators: the operation last called
    calls,            \* collaborators: the collaborator calls it made, in order
    outcome,          \* collaborators: "returned" or "raised"
    by_source,        \* collaborators: stats["by_source"] of get_source_stats
    vector_store,     \* singletons: the global _vector_store, 0 for None
    embedding_service,\* singletons: the global _embedding_service, 0 for None
    retrieval_service,\* singletons: the global _retrieval_service
    built,            \* singletons: instances constructed so far, by class
    pc,               \* singletons: the position of every request handler
    kind,             \* singletons: the endpoint of every request
    used,             \* singletons: the instances every request works with
    running,          \* singletons: the request the event loop runs, 0 for none
    fgroups,          \* formatter: the journal, blog and wisdom chunk lists
    fstage,           \* formatter: "build" while the lists grow, "formatted" after
    formatted_context,\* formatter: the string _format_context returned
    system_prompt,    \* formatter: the string get_system_prompt returned
    isource,          \* ingestion: the script that runs, "dayone" or "wordpress"
    documents,        \* ingestion: the entries or posts of the export
    istage,           \* ingestion: "build" while the export grows, "ingested" after
    ingested,         \* ingestion: the chunks the run handed to the vector store
    icalls,           \* ingestion: the service calls the run made, in order
    chat_request,     \* chat: the ChatRequest, its message and conversation_history
    chat_pc,          \* chat: the position of the handler
    chat_trace,       \* chat: the steps of the pipeline done so far, in order
    chat_result,      \* chat: retrieval_result
    chat_prompt,      \* chat: system_prompt
    chat_messages,    \* chat: the messages passed to generate_response
    chat_exception,   \* chat: the class of the exception the try block raised
    chat_response     \* chat: the HTTP response, status 0 while there is none

vars == <<text, target_tokens, max_tokens, chunks, cstage, dquery, dpieces, dpriority,
          store, rstage, call, searches, result,
          initialized, operation, calls, outcome, by_source,
          vector_store, embedding_service, retrieval_service, built, pc, kind, used,
          running, fgroups, fstage, formatted_context, system_prompt,
          isource, documents, istage, ingested, icalls,
          chat_request, chat_pc, chat_trace, chat_result, chat_prompt, chat_messages,
          chat_exception, chat_response>>

chunkVars == <<text, target_tokens, max_tokens, chunks, cstage>>
detectVars == <<dquery, dpieces, dpriority>>
retrievalVars == <<store, rstage, call, searches, result>>
collabVars == <<initialized, operation, calls, outcome, by_source>>
singletonVars == <<vector_store, embedding_service, retrieval_service, built, pc, kind,
                   used, running>>
formatVars == <<fgroups, fstage, formatted_context, system_prompt>>
ingestVars == <<isource, documents, istage, ingested, icalls>>
chatVars == <<chat_request, chat_pc, chat_trace, chat_result, chat_prompt, chat_messages,
              chat_exception, chat_response>>
extVars == <<collabVars, singletonVars, formatVars, ingestVars, chatVars>>

NoValue == "None"     \* a priority not computed yet
NoFilter == <<>>      \* source_filter / where: None or the empty string, both falsy
NoTopK == 0           \* top_k: None or 0, both falsy

-----------------------------------------------------------------------------
(* Bounds of the model *)

MaxTextLen == 14      \* characters of a chunker input
MaxTokens == 2        \* largest target_tokens / max_tokens of a chunker call
ScenarioSlack == 2    \* the "about 60 tokens" paragraphs: 240 +- 4*ScenarioSlack chars
MaxPieces == 4        \* pieces of a detector query
MaxStore == 3         \* documents in the vector store
MaxDist == 1          \* largest distance of a stored document to the query
MaxTopK == 4          \* largest explicit top_k of a retrieve call
MaxFaults == 1        \* collaborator calls that raise during one operation
MaxRequests == 2      \* requests the server has received
MaxChunks == 3        \* chunks handed to _format_context, over the three groups
MaxDocuments == 2     \* entries or posts of an export
ParagraphLength == 1640  \* characters of a paragraph of a long document
MaxHistory == 2       \* messages of a conversation history

-----------------------------------------------------------------------------
(* Python string primitives *)

Min(S) == CHOOSE x \in S : \A y \in S : x <= y
Max(S) == CHOOSE x \in S : \A y \in S : x >= y

\* str.strip() / split() whitespace, restricted to the characters of the model
IsSpace(c) == c \in {" ", "\n", "\t"}

\* str.strip(): drop leading and trailing whitespace
RECURSIVE FirstKept(_, _)
FirstKept(s, i) ==
    IF i > Len(s) THEN 0 ELSE IF ~IsSpace(s[i]) THEN i ELSE FirstKept(s, i + 1)

RECURSIVE LastKept(_, _)
LastKept(s, i) ==
    IF i < 1 THEN 0 ELSE IF ~IsSpace(s[i]) THEN i ELSE LastKept(s, i - 1)

strip(s) ==
    LET first == FirstKept(s, 1)
    IN  IF first = 0 THEN <<>> ELSE SubSeq(s, first, LastKept(s, Len(s)))

\* first index >= start at which sep occurs in s, 0 when there is none
Find(s, sep, start) ==
    LET hits == {i \in start..(Len(s) - Len(sep) + 1) :
                    SubSeq(s, i, i + Len(sep) - 1) = sep}
    IN  IF hits = {} THEN 0 ELSE Min(hits)

\* str.split(sep): leftmost, non-overlapping occurrences of sep
RECURSIVE SplitFrom(_, _, _)
SplitFrom(s, sep, start) ==
    LET i == Find(s, sep, start)
    IN  IF i = 0 THEN <<SubSeq(s, start, Len(s))>>
        ELSE <<SubSeq(s, start, i - 1)>> \o SplitFrom(s, sep, i + Len(sep))

split(s, sep) == SplitFrom(s, sep, 1)

\* sep.join(parts)
RECURSIVE join(_, _)
join(sep, parts) ==
    IF parts = <<>> THEN <<>>
    ELSE IF Len(parts) = 1 THEN parts[1]
    ELSE parts[1] \o sep \o join(sep, Tail(parts))

UpperCase == <<"A","B","C","D","E","F","G","H","I","J","K","L","M",
               "N","O","P","Q","R","S","T","U","V","W","X","Y","Z">>
LowerCase == <<"a","b","c","d","e","f","g","h","i","j","k","l","m",
               "n","o","p","q","r","s","t","u","v","w","x","y","z">>
Digits == {"0","1","2","3","4","5","6","7","8","9"}

Range(f) == {f[i] : i \in DOMAIN f}

\* the lower-case letter of every upper-case ASCII letter
LowerOf == [c \in Range(UpperCase) |-> LowerCase[CHOOSE i \in 1..26 : UpperCase[i] = c]]

\* str.lower(), on the ASCII letters
LowerChar(c) == IF c \in DOMAIN LowerOf THEN LowerOf[c] ELSE c

lower(s) == [i \in 1..Len(s) |-> LowerChar(s[i])]

ParaSep == <<"\n", "\n">>        \* '\n\n'
SentSep == <<".", " ">>          \* '. '

-----------------------------------------------------------------------------
(* scripts/ingest_dayone.py: the chunker *)

estimate_tokens(t) == Len(t) \div 4

EmptyAcc == [chunks |-> <<>>, current_chunk |-> <<>>, current_tokens |-> 0]

\* mutant: the unit that closes a chunk is not carried into the next chunk
AddSentenceDrop(acc, sentence, target) ==
    LET sent_tokens == estimate_tokens(sentence)
    IN  IF acc.current_tokens + sent_tokens > target /\ acc.current_chunk # <<>>
        THEN [chunks |-> Append(acc.chunks, join(ParaSep, acc.current_chunk)),
              current_chunk |-> <<>>,
              current_tokens |-> 0]
        ELSE [chunks |-> acc.chunks,
              current_chunk |-> Append(acc.current_chunk, sentence),
              current_tokens |-> acc.current_tokens + sent_tokens]

\* one iteration of the sentence loop (lines 78-86)
AddSentence(acc, sentence, target) ==
    LET sent_tokens == estimate_tokens(sentence)
    IN  IF acc.current_tokens + sent_tokens > target /\ acc.current_chunk # <<>>
        THEN [chunks |-> Append(acc.chunks, join(ParaSep, acc.current_chunk)),
              current_chunk |-> <<sentence>>,
              current_tokens |-> sent_tokens]
        ELSE [chunks |-> acc.chunks,
              current_chunk |-> Append(acc.current_chunk, sentence),
              current_tokens |-> acc.current_tokens + sent_tokens]

RECURSIVE AddSentences(_, _, _)
AddSentences(acc, sentences, target) ==
    IF sentences = <<>> THEN acc
    ELSE AddSentences(AddSentence(acc, Head(sentences), target), Tail(sentences), target)

\* mutant: a paragraph that does not fit closes the chunk and is lost
AddParagraphDrop(acc, raw, target, max) ==
    LET paragraph == strip(raw)
        para_tokens == estimate_tokens(paragraph)
    IN  IF paragraph = <<>> THEN acc
        ELSE IF para_tokens > max
        THEN AddSentences(acc, split(paragraph, SentSep), target)
        ELSE IF acc.current_tokens + para_tokens > target /\ acc.current_chunk # <<>>
        THEN [chunks |-> Append(acc.chunks, join(ParaSep, acc.current_chunk)),
              current_chunk |-> <<>>,
              current_tokens |-> 0]
        ELSE [chunks |-> acc.chunks,
              current_chunk |-> Append(acc.current_chunk, paragraph),
              current_tokens |-> acc.current_tokens + para_tokens]

\* mutant: a blank paragraph closes the chunk that is being accumulated
AddParagraphBlankCloses(acc, raw, target, max) ==
    LET paragraph == strip(raw)
        para_tokens == estimate_tokens(paragraph)
    IN  IF paragraph = <<>>
        THEN (IF acc.current_chunk = <<>> THEN acc
              ELSE [chunks |-> Append(acc.chunks, join(ParaSep, acc.current_chunk)),
                    current_chunk |-> <<>>,
                    current_tokens |-> 0])
        ELSE IF para_tokens > max
        THEN AddSentences(acc, split(paragraph, SentSep), target)
        ELSE IF acc.current_tokens + para_tokens > target /\ acc.current_chunk # <<>>
        THEN [chunks |-> Append(acc.chunks, join(ParaSep, acc.current_chunk)),
              current_chunk |-> <<paragraph>>,
              current_tokens |-> para_tokens]
        ELSE [chunks |-> acc.chunks,
              current_chunk |-> Append(acc.current_chunk, paragraph),
              current_tokens |-> acc.current_tokens + para_tokens]

\* mutant: a paragraph closes the chunk when it would exceed max_tokens
AddParagraphMax(acc, raw, target, max) ==
    LET paragraph == strip(raw)
        para_tokens == estimate_tokens(paragraph)
    IN  IF paragraph = <<>> THEN acc
        ELSE IF para_tokens > max
        THEN AddSentences(acc, split(paragraph, SentSep), target)
        ELSE IF acc.current_tokens + para_tokens > max /\ acc.current_chunk # <<>>
        THEN [chunks |-> Append(acc.chunks, join(ParaSep, acc.current_chunk)),
              current_chunk |-> <<paragraph>>,
              current_tokens |-> para_tokens]
        ELSE [chunks |-> acc.chunks,
              current_chunk |-> Append(acc.current_chunk, paragraph),
              current_tokens |-> acc.current_tokens + para_tokens]

\* one iteration of the paragraph loop (lines 68-95)
AddParagraph(acc, raw, target, max) ==
    LET paragraph == strip(raw)
        para_tokens == estimate_tokens(paragraph)
    IN  IF paragraph = <<>> THEN acc
        ELSE IF para_tokens > max
        THEN AddSentences(acc, split(paragraph, SentSep), target)
        ELSE IF acc.current_tokens + para_tokens > target /\ acc.current_chunk # <<>>
        THEN [chunks |-> Append(acc.chunks, join(ParaSep, acc.current_chunk)),
              current_chunk |-> <<paragraph>>,
              current_tokens |-> para_tokens]
        ELSE [chunks |-> acc.chunks,
              current_chunk |-> Append(acc.current_chunk, paragraph),
              current_tokens |-> acc.current_tokens + para_tokens]

RECURSIVE AddParagraphs(_, _, _, _)
AddParagraphs(acc, paragraphs, target, max) ==
    IF paragraphs = <<>> THEN acc
    ELSE AddParagraphs(AddParagraph(acc, Head(paragraphs), target, max),
                       Tail(paragraphs), target, max)

\* mutant: the short-text path trims the text
chunk_text_trim(t, target, max) ==
    IF estimate_tokens(t) <= max THEN <<strip(t)>>
    ELSE LET acc == AddParagraphs(EmptyAcc, split(t, ParaSep), target, max)
         IN  IF acc.current_chunk # <<>>
             THEN Append(acc.chunks, join(ParaSep, acc.current_chunk))
             ELSE acc.chunks

chunk_text(t, target, max) ==
    IF estimate_tokens(t) <= max THEN <<t>>
    ELSE LET acc == AddParagraphs(EmptyAcc, split(t, ParaSep), target, max)
         IN  IF acc.current_chunk # <<>>
             THEN Append(acc.chunks, join(ParaSep, acc.current_chunk))
             ELSE acc.chunks

-----------------------------------------------------------------------------
(* app/services/retrieval.py: the query intent detector *)

BLOG_KEYWORDS ==
    << <<"b","l","o","g">>,
       <<"p","o","s","t">>,
       <<"p","o","s","t","s">>,
       <<"a","r","t","i","c","l","e">>,
       <<"a","r","t","i","c","l","e","s">>,
       <<"p","u","b","l","i","c"," ","w","r","i","t","i","n","g">>,
       <<"p","u","b","l","i","s","h","e","d">>,
       <<"e","s","s","a","y">>,
       <<"e","s","s","a","y","s">>,
       <<"w","o","r","d","p","r","e","s","s">>,
       <<"p","u","b","l","i","c">> >>

JOURNAL_KEYWORDS ==
    << <<"j","o","u","r","n","a","l">>,
       <<"d","i","a","r","y">>,
       <<"p","r","i","v","a","t","e">>,
       <<"p","e","r","s","o","n","a","l">>,
       <<"e","n","t","r","y">>,
       <<"e","n","t","r","i","e","s">>,
       <<"d","a","y","o","n","e">>,
       <<"d","a","y"," ","o","n","e">>,
       <<"p","r","i","v","a","t","e"," ","w","r","i","t","i","n","g">>,
       <<"r","e","f","l","e","c","t","i","o","n">>,
       <<"r","e","f","l","e","c","t","i","o","n","s">> >>

\* the characters \w matches
WordChars == Range(LowerCase) \cup Range(UpperCase) \cup Digits \cup {"_"}
IsWordChar(c) == c \in WordChars

\* re.search(r"\bword\b", s): word occurs in s between two word boundaries
re_search(word, s) ==
    \E i \in 1..(Len(s) - Len(word) + 1) :
        LET e == i + Len(word) - 1
        IN  /\ s[i] = word[1]
            /\ SubSeq(s, i, e) = word
            /\ (i = 1 \/ ~IsWordChar(s[i - 1]))
            /\ (e = Len(s) \/ ~IsWordChar(s[e + 1]))

\* sum(1 for pattern in keywords if re.search(pattern, s))
CountMatches(keywords, s) ==
    Cardinality({k \in DOMAIN keywords : re_search(keywords[k], s)})

\* mutant: a tie with at least one match goes to the blog
detect_source_priority_tie(query) ==
    LET query_lower == lower(query)
        blog_matches == CountMatches(BLOG_KEYWORDS, query_lower)
        journal_matches == CountMatches(JOURNAL_KEYWORDS, query_lower)
    IN  IF blog_matches >= journal_matches /\ blog_matches > 0 THEN "blog"
        ELSE IF journal_matches > blog_matches /\ journal_matches > 0 THEN "journal"
        ELSE "none"

\* mutant: the query is matched without being lowered
detect_source_priority_cased(query) ==
    LET blog_matches == CountMatches(BLOG_KEYWORDS, query)
        journal_matches == CountMatches(JOURNAL_KEYWORDS, query)
    IN  IF blog_matches > journal_matches /\ blog_matches > 0 THEN "blog"
        ELSE IF journal_matches > blog_matches /\ journal_matches > 0 THEN "journal"
        ELSE "none"

\* RetrievalService._detect_source_priority; the result is SourcePriority.value
detect_source_priority(query) ==
    LET query_lower == lower(query)
        blog_matches == CountMatches(BLOG_KEYWORDS, query_lower)
        journal_matches == CountMatches(JOURNAL_KEYWORDS, query_lower)
    IN  IF blog_matches > journal_matches /\ blog_matches > 0 THEN "blog"
        ELSE IF journal_matches > blog_matches /\ journal_matches > 0 THEN "journal"
        ELSE "none"

-----------------------------------------------------------------------------
(* app/database/vector_store.py and app/services/retrieval.py: retrieval *)

DAYONE == <<"d","a","y","o","n","e">>
WORDPRESS == <<"w","o","r","d","p","r","e","s","s">>
WISDOM == <<"w","i","s","d","o","m">>

\* settings.retrieval_top_k, the top_k of the service get_retrieval_service builds
DefaultTopK == 10

\* primary_ratio = 0.8, in tenths
PrimaryRatioTenths == 8

\* the documents of `docs`, nearest first; equal distances keep insertion order
RECURSIVE NearestFirst(_)
NearestFirst(docs) ==
    IF docs = <<>> THEN <<>>
    ELSE LET sorted == NearestFirst(SubSeq(docs, 1, Len(docs) - 1))
             x == docs[Len(docs)]
             before == {i \in 1..Len(sorted) : sorted[i].distance <= x.distance}
             k == IF before = {} THEN 0 ELSE Max(before)
         IN  SubSeq(sorted, 1, k) \o <<x>> \o SubSeq(sorted, k + 1, Len(sorted))

\* VectorStore.search: at most n_results documents whose metadata equal `where`,
\* ranked by ascending distance to the query embedding
search(docs, n_results, where) ==
    LET matching == SelectSeq(docs, LAMBDA d : where = NoFilter \/ d.source_type = where)
        ranked == NearestFirst(matching)
    IN  SubSeq(ranked, 1, IF n_results < Len(ranked) THEN n_results ELSE Len(ranked))

\* RetrievalService._results_to_chunks
results_to_chunks(results) ==
    [i \in 1..Len(results) |->
        [id |-> results[i].id,
         distance |-> results[i].distance,
         relevance_score |-> 1 - results[i].distance,
         source_type |-> results[i].source_type]]

\* mutant: ascending sort followed by a reversal, which reverses the ties
RECURSIVE sort_by_relevance_reversed(_)
sort_by_relevance_reversed(cs) ==
    IF cs = <<>> THEN <<>>
    ELSE LET sorted == sort_by_relevance_reversed(SubSeq(cs, 1, Len(cs) - 1))
             x == cs[Len(cs)]
             before == {i \in 1..Len(sorted) :
                           sorted[i].relevance_score > x.relevance_score}
             k == IF before = {} THEN 0 ELSE Max(before)
         IN  SubSeq(sorted, 1, k) \o <<x>> \o SubSeq(sorted, k + 1, Len(sorted))

\* all_chunks.sort(key=lambda c: c.relevance_score, reverse=True): a stable
\* sort, equal scores keep their order
RECURSIVE sort_by_relevance(_)
sort_by_relevance(cs) ==
    IF cs = <<>> THEN <<>>
    ELSE LET sorted == sort_by_relevance(SubSeq(cs, 1, Len(cs) - 1))
             x == cs[Len(cs)]
             before == {i \in 1..Len(sorted) :
                           sorted[i].relevance_score >= x.relevance_score}
             k == IF before = {} THEN 0 ELSE Max(before)
         IN  SubSeq(sorted, 1, k) \o <<x>> \o SubSeq(sorted, k + 1, Len(sorted))

\* mutant: the merged list is not cut
TruncateNone(cs, n) == cs

\* cs[:n]
Truncate(cs, n) == SubSeq(cs, 1, IF n < Len(cs) THEN n ELSE Len(cs))

\* one vector_store.search call as it is recorded in `searches`
SearchCall(docs, n_results, where) ==
    [n_results |-> n_results, where |-> where,
     returned |-> search(docs, n_results, where)]

\* mutant: every source is asked for top_k results
balanced_search_full(docs, top_k) ==
    LET per_source == top_k
        journal == SearchCall(docs, per_source, DAYONE)
        blog == SearchCall(docs, per_source, WORDPRESS)
        all_chunks == sort_by_relevance(results_to_chunks(journal.returned)
                                        \o results_to_chunks(blog.returned))
    IN  [searches |-> <<journal, blog>>, chunks |-> Truncate(all_chunks, top_k)]

\* mutant: the second query carries no source filter
balanced_search_unfiltered(docs, top_k) ==
    LET per_source == IF top_k \div 2 > 1 THEN top_k \div 2 ELSE 1
        journal == SearchCall(docs, per_source, DAYONE)
        blog == SearchCall(docs, per_source, NoFilter)
        all_chunks == sort_by_relevance(results_to_chunks(journal.returned)
                                        \o results_to_chunks(blog.returned))
    IN  [searches |-> <<journal, blog>>, chunks |-> Truncate(all_chunks, top_k)]

\* mutant: a source that returned fewer than its share is made up for by a
\* further query of the other source
balanced_search_backfill(docs, top_k) ==
    LET per_source == IF top_k \div 2 > 1 THEN top_k \div 2 ELSE 1
        journal == SearchCall(docs, per_source, DAYONE)
        blog == SearchCall(docs, per_source, WORDPRESS)
        more == SearchCall(docs, top_k - Len(journal.returned), WORDPRESS)
        short == Len(journal.returned) < per_source
        all_chunks == sort_by_relevance(results_to_chunks(journal.returned)
                          \o results_to_chunks(IF short THEN more.returned
                                               ELSE blog.returned))
    IN  [searches |-> IF short THEN <<journal, blog, more>> ELSE <<journal, blog>>,
         chunks |-> Truncate(all_chunks, top_k)]

\* RetrievalService._balanced_search
balanced_search(docs, top_k) ==
    LET per_source == IF top_k \div 2 > 1 THEN top_k \div 2 ELSE 1
        journal == SearchCall(docs, per_source, DAYONE)
        blog == SearchCall(docs, per_source, WORDPRESS)
        all_chunks == sort_by_relevance(results_to_chunks(journal.returned)
                                        \o results_to_chunks(blog.returned))
    IN  [searches |-> <<journal, blog>>, chunks |-> Truncate(all_chunks, top_k)]

\* mutant: the primary share is rounded to the nearest integer
prioritized_search_round(docs, top_k, primary_source) ==
    LET rounded == (top_k * PrimaryRatioTenths + 5) \div 10
        primary_count == IF rounded > 1 THEN rounded ELSE 1
        secondary_count == IF top_k - primary_count > 1 THEN top_k - primary_count ELSE 1
        primary == SearchCall(docs, primary_count, primary_source)
        other_source == IF primary_source = WORDPRESS THEN DAYONE ELSE WORDPRESS
        secondary == SearchCall(docs, secondary_count, other_source)
        all_chunks == sort_by_relevance(results_to_chunks(primary.returned)
                                        \o results_to_chunks(secondary.returned))
    IN  [searches |-> <<primary, secondary>>, chunks |-> Truncate(all_chunks, top_k)]

\* RetrievalService._prioritized_search with primary_ratio = 0.8;
\* int(top_k * 0.8) truncates, which is (top_k * 8) div 10
prioritized_search(docs, top_k, primary_source) ==
    LET truncated == (top_k * PrimaryRatioTenths) \div 10
        primary_count == IF truncated > 1 THEN truncated ELSE 1
        secondary_count == IF top_k - primary_count > 1 THEN top_k - primary_count ELSE 1
        primary == SearchCall(docs, primary_count, primary_source)
        other_source == IF primary_source = WORDPRESS THEN DAYONE ELSE WORDPRESS
        secondary == SearchCall(docs, secondary_count, other_source)
        all_chunks == sort_by_relevance(results_to_chunks(primary.returned)
                                        \o results_to_chunks(secondary.returned))
    IN  [searches |-> <<primary, secondary>>, chunks |-> Truncate(all_chunks, top_k)]

\* the RetrievalResult built at the end of retrieve
MakeResult(cs, detected_priority) ==
    [chunks |-> cs,
     journal_chunks |-> SelectSeq(cs, LAMBDA c : c.source_type = DAYONE),
     blog_chunks |-> SelectSeq(cs, LAMBDA c : c.source_type = WORDPRESS),
     wisdom_chunks |-> SelectSeq(cs, LAMBDA c : c.source_type = WISDOM),
     detected_priority |-> detected_priority]

\* mutant: a detected priority is served before the explicit filter is looked at
retrieve_detection_first(docs, self_top_k, query, top_k_arg, source_filter) ==
    LET top_k == IF top_k_arg = NoTopK THEN self_top_k ELSE top_k_arg
        detected_priority == detect_source_priority(query)
        found ==
            IF detected_priority = "blog" THEN prioritized_search(docs, top_k, WORDPRESS)
            ELSE IF detected_priority = "journal"
            THEN prioritized_search(docs, top_k, DAYONE)
            ELSE IF source_filter # NoFilter
            THEN LET one == SearchCall(docs, top_k, lower(source_filter))
                 IN  [searches |-> <<one>>, chunks |-> results_to_chunks(one.returned)]
            ELSE balanced_search(docs, top_k)
    IN  [searches |-> found.searches,
         result |-> MakeResult(found.chunks, detected_priority)]

\* RetrievalService.retrieve: the vector-store queries it issues and its result
retrieve(docs, self_top_k, query, top_k_arg, source_filter) ==
    LET top_k == IF top_k_arg = NoTopK THEN self_top_k ELSE top_k_arg
        detected_priority == detect_source_priority(query)
        found ==
            IF source_filter # NoFilter
            THEN LET one == SearchCall(docs, top_k, lower(source_filter))
                 IN  [searches |-> <<one>>, chunks |-> results_to_chunks(one.returned)]
            ELSE IF detected_priority = "blog"
            THEN prioritized_search(docs, top_k, WORDPRESS)
            ELSE IF detected_priority = "journal"
            THEN prioritized_search(docs, top_k, DAYONE)
            ELSE balanced_search(docs, top_k)
    IN  [searches |-> found.searches,
         result |-> MakeResult(found.chunks, detected_priority)]

-----------------------------------------------------------------------------
(* Idle values of the components a specification does not exercise *)

ChunkIdle ==
    /\ text = <<>> /\ target_tokens = 0 /\ max_tokens = 0
    /\ chunks = <<>> /\ cstage = "idle"

DetectIdle == dquery = <<>> /\ dpieces = 0 /\ dpriority = "idle"

NoCall == [query |-> <<>>, top_k |-> NoTopK, source_filter |-> NoFilter]

RetrievalIdle ==
    /\ store = <<>> /\ rstage = "idle" /\ call = NoCall /\ searches = <<>>
    /\ result = MakeResult(<<>>, "none")

CollabIdle ==
    /\ initialized = FALSE /\ operation = "idle" /\ calls = <<>>
    /\ outcome = "idle" /\ by_source = <<>>

SingletonIdle ==
    /\ vector_store = 0 /\ embedding_service = 0
    /\ retrieval_service = [exists |-> FALSE, embedding |-> 0]
    /\ built = [store |-> 0, embedding |-> 0]
    /\ pc = <<>> /\ kind = <<>> /\ used = <<>> /\ running = 0

FormatIdle ==
    /\ fgroups = [journal |-> <<>>, blog |-> <<>>, wisdom |-> <<>>]
    /\ fstage = "idle" /\ formatted_context = <<>> /\ system_prompt = <<>>

IngestIdle ==
    /\ isource = "idle" /\ documents = <<>> /\ istage = "idle" /\ ingested = <<>>
    /\ icalls = <<>>

NoRequest == [message |-> <<>>, conversation_history |-> <<>>]

NoResponse == [status |-> 0, sources |-> <<>>]

ChatIdle ==
    /\ chat_request = NoRequest /\ chat_pc = "idle" /\ chat_trace = <<>>
    /\ chat_result = MakeResult(<<>>, "none") /\ chat_prompt = <<>>
    /\ chat_messages = <<>> /\ chat_exception = "none" /\ chat_response = NoResponse

ExtIdle == CollabIdle /\ SingletonIdle /\ FormatIdle /\ IngestIdle /\ ChatIdle

-----------------------------------------------------------------------------
(* SpecChunk: chunk_text applied to every text built from TextPieces *)

TextPieces ==
    { <<"a">>, <<"b", "c", "d", "e">>, SentSep, ParaSep }

InitChunk ==
    /\ text = <<>>
    /\ target_tokens \in 1..MaxTokens
    /\ max_tokens \in target_tokens..MaxTokens
    /\ chunks = <<>>
    /\ cstage = "build"
    /\ DetectIdle
    /\ RetrievalIdle
    /\ ExtIdle

\* the caller extends the text it is going to chunk
ChunkAppend(p) ==
    /\ cstage = "build"
    /\ Len(text) + Len(p) <= MaxTextLen
    /\ text' = text \o p
    /\ UNCHANGED <<target_tokens, max_tokens, chunks, cstage>>
    /\ UNCHANGED <<detectVars, retrievalVars, extVars>>

\* chunks = chunk_text(text, target_tokens, max_tokens)
ChunkCall ==
    /\ cstage = "build"
    /\ chunks' = chunk_text(text, target_tokens, max_tokens)
    /\ cstage' = "done"
    /\ UNCHANGED <<text, target_tokens, max_tokens>>
    /\ UNCHANGED <<detectVars, retrievalVars, extVars>>

NextChunk ==
    \/ \E p \in TextPieces : ChunkAppend(p)
    \/ ChunkCall

SpecChunk == InitChunk /\ [][NextChunk]_vars

-----------------------------------------------------------------------------
(* SpecScenario: the three-paragraph document of section 8 of the          *)
(* specification, chunked with target_tokens = 50 and max_tokens = 100     *)

\* a paragraph of n characters: words of four letters, closed by a period
ScenarioParagraph(n) ==
    [i \in 1..n |-> IF i = n THEN "." ELSE IF i % 5 = 0 THEN " " ELSE "a"]

\* lengths whose estimate is "about 60 tokens"
ScenarioLengths == {4 * (60 + d) : d \in (0 - ScenarioSlack)..ScenarioSlack}

InitScenario ==
    /\ \E l1 \in ScenarioLengths, l2 \in ScenarioLengths, l3 \in ScenarioLengths :
          text = join(ParaSep, <<ScenarioParagraph(l1), ScenarioParagraph(l2),
                                 ScenarioParagraph(l3)>>)
    /\ target_tokens = 50
    /\ max_tokens = 100
    /\ chunks = <<>>
    /\ cstage = "build"
    /\ DetectIdle
    /\ RetrievalIdle
    /\ ExtIdle

NextScenario == ChunkCall

SpecScenario == InitScenario /\ [][NextScenario]_vars

-----------------------------------------------------------------------------
(* Properties of the chunker *)

IsSubstring(u, c) == u = <<>> \/ Find(c, u, 1) # 0

\* the units chunk_text accumulates: the non-blank stripped paragraphs, a
\* paragraph above max replaced by its sentences
RECURSIVE UnitsOfParagraphs(_, _)
UnitsOfParagraphs(paragraphs, max) ==
    IF paragraphs = <<>> THEN <<>>
    ELSE LET p == strip(Head(paragraphs))
             rest == UnitsOfParagraphs(Tail(paragraphs), max)
         IN  IF p = <<>> THEN rest
             ELSE IF Len(p) \div 4 > max THEN split(p, SentSep) \o rest
             ELSE <<p>> \o rest

UnitsOf(t, max) == UnitsOfParagraphs(split(t, ParaSep), max)

\* units[i..] occur, in order, in cs[j..]
RECURSIVE CoveredFrom(_, _, _, _)
CoveredFrom(units, cs, i, j) ==
    IF i > Len(units) THEN TRUE
    ELSE LET at == {k \in j..Len(cs) : IsSubstring(units[i], cs[k])}
         IN  at # {} /\ CoveredFrom(units, cs, i + 1, Min(at))

\* C6: a text whose estimate len // 4 is at most max_tokens comes back as the
\* one-element list holding the text unchanged
Passthrough ==
    (cstage = "done" /\ Len(text) \div 4 <= max_tokens) => chunks = <<text>>

PassthroughWitness ==
    /\ cstage = "done"
    /\ Len(text) \div 4 <= max_tokens
    /\ text # strip(text)
    /\ Find(text, ParaSep, 1) # 0
    /\ chunks = <<text>>

\* C7 as stated: two chunks, paragraphs 1 and 2 joined, then paragraph 3
ScenarioTwoChunks ==
    cstage = "done" =>
        LET p == split(text, ParaSep)
        IN  chunks = << p[1] \o ParaSep \o p[2], p[3] >>

\* C7 amended: three chunks, one paragraph each
ScenarioThreeChunks ==
    cstage = "done" =>
        LET p == split(text, ParaSep)
        IN  Len(p) = 3 /\ chunks = << p[1], p[2], p[3] >>

ScenarioWitness ==
    /\ cstage = "done"
    /\ target_tokens = 50 /\ max_tokens = 100
    /\ Len(chunks) = 3
    /\ \A i \in 1..3 : Len(chunks[i]) \div 4 \in 58..62

\* C8: every non-blank paragraph, and every sentence of a paragraph above
\* max_tokens, occurs in some returned chunk, in the original order
Coverage ==
    cstage = "done" => CoveredFrom(UnitsOf(text, max_tokens), chunks, 1, 1)

CoverageWitness ==
    /\ cstage = "done"
    /\ Len(text) \div 4 > max_tokens
    /\ Len(chunks) >= 2
    /\ Len(UnitsOf(text, max_tokens)) >= 3
    /\ \E i \in 1..Len(split(text, ParaSep)) :
          Len(strip(split(text, ParaSep)[i])) \div 4 > max_tokens
    /\ \E i \in 1..Len(split(text, ParaSep)) :
          /\ strip(split(text, ParaSep)[i]) # <<>>
          /\ Len(strip(split(text, ParaSep)[i])) \div 4 <= max_tokens

\* C9: a chunk whose estimate is above max_tokens is one single unit
Boundary ==
    cstage = "done" =>
        \A i \in 1..Len(chunks) :
            Len(chunks[i]) \div 4 > max_tokens
                => chunks[i] \in Range(UnitsOf(text, max_tokens))

\* C10: every returned string is non-empty
NonEmptyChunks ==
    cstage = "done" => \A i \in 1..Len(chunks) : chunks[i] # <<>>

\* the split path was taken
SplitPath == cstage = "done" /\ Len(text) \div 4 > max_tokens

\* the units every returned chunk was joined from
UnitGroups == [k \in 1..Len(chunks) |-> split(chunks[k], ParaSep)]

RECURSIVE Flatten(_)
Flatten(groups) == IF groups = <<>> THEN <<>> ELSE Head(groups) \o Flatten(Tail(groups))

\* the sum of the token estimates of the units, each estimated alone
RECURSIVE TokensOf(_)
TokensOf(units) ==
    IF units = <<>> THEN 0 ELSE Len(Head(units)) \div 4 + TokensOf(Tail(units))

\* C24: in the split path the returned chunks are the units of the text,
\* in order, joined in groups; a group of more than one unit has a token sum
\* of at most target_tokens, and every group but the last is followed by a
\* unit that would have pushed its sum over target_tokens
AccumulateClose ==
    SplitPath =>
        /\ Flatten(UnitGroups) = UnitsOf(text, max_tokens)
        /\ \A k \in 1..Len(chunks) :
              \/ Len(UnitGroups[k]) = 1
              \/ TokensOf(UnitGroups[k]) <= target_tokens
        /\ \A k \in 1..(Len(chunks) - 1) :
              TokensOf(UnitGroups[k]) + Len(UnitGroups[k + 1][1]) \div 4 > target_tokens

\* a chunk of two units was closed by a third unit
AccumulateCloseWitness ==
    /\ SplitPath
    /\ Len(chunks) >= 2
    /\ Len(UnitGroups[1]) >= 2
    /\ TokensOf(UnitGroups[1]) >= 1

\* paragraphs that are empty or white space only
BlankParagraphs == { <<>>, <<" ", "\n">> }

\* the text with the paragraph `blank` put in after its paragraph number i
WithBlank(t, i, blank) ==
    LET paragraphs == split(t, ParaSep)
    IN  join(ParaSep, SubSeq(paragraphs, 1, i) \o <<blank>>
                      \o SubSeq(paragraphs, i + 1, Len(paragraphs)))

\* C26: a text of the split path and the same text with one more blank
\* paragraph between two of its paragraphs, also of the split path, give the
\* same chunk list
BlankTransparent ==
    SplitPath =>
        \A i \in 1..(Len(split(text, ParaSep)) - 1), blank \in BlankParagraphs :
            LET other == WithBlank(text, i, blank)
            IN  Len(other) \div 4 > max_tokens =>
                    chunk_text(other, target_tokens, max_tokens) = chunks

\* a text with a blank paragraph between two paragraphs that share a chunk
BlankTransparentWitness ==
    /\ SplitPath
    /\ Len(chunks) >= 1
    /\ Len(UnitGroups[1]) >= 2
    /\ LET paragraphs == split(text, ParaSep)
       IN  \E i \in 2..(Len(paragraphs) - 1) :
              /\ strip(paragraphs[i]) = <<>>
              /\ strip(paragraphs[i - 1]) # <<>>
              /\ strip(paragraphs[i + 1]) # <<>>

-----------------------------------------------------------------------------
(* SpecDetect: _detect_source_priority applied to every query built from   *)
(* QueryPieces                                                             *)

QueryPieces ==
    { <<"B","l","o","g">>, <<"p","o","s","t","s">>, <<"p","u","b","l","i","c">>,
      <<" ","w","r","i","t","i","n","g">>, <<"j","o","u","r","n","a","l">>,
      <<"P","R","I","V","A","T","E">>, <<" ">>, <<"s">> }

InitDetect ==
    /\ dquery = <<>>
    /\ dpieces = 0
    /\ dpriority = NoValue
    /\ ChunkIdle
    /\ RetrievalIdle
    /\ ExtIdle

\* the caller extends the query it is going to ask
DetectAppend(p) ==
    /\ dpriority = NoValue
    /\ dpieces < MaxPieces
    /\ dquery' = dquery \o p
    /\ dpieces' = dpieces + 1
    /\ UNCHANGED dpriority
    /\ UNCHANGED <<chunkVars, retrievalVars, extVars>>

\* dpriority = self._detect_source_priority(dquery)
DetectCall ==
    /\ dpriority = NoValue
    /\ dpriority' = detect_source_priority(dquery)
    /\ UNCHANGED <<dquery, dpieces>>
    /\ UNCHANGED <<chunkVars, retrievalVars, extVars>>

NextDetect ==
    \/ \E p \in QueryPieces : DetectAppend(p)
    \/ DetectCall

SpecDetect == InitDetect /\ [][NextDetect]_vars

-----------------------------------------------------------------------------
(* Properties of the detector *)

\* a and b are the same letter, whatever their case
SameLetter(a, b) ==
    \/ a = b
    \/ a \in DOMAIN LowerOf /\ LowerOf[a] = b
    \/ b \in DOMAIN LowerOf /\ LowerOf[b] = a

\* keyword occurs in q as a whole word or phrase, in any mix of cases
OccursAnyCase(keyword, q) ==
    \E i \in 1..(Len(q) - Len(keyword) + 1) :
        /\ \A k \in 1..Len(keyword) : SameLetter(q[i + k - 1], keyword[k])
        /\ (i = 1 \/ ~IsWordChar(q[i - 1]))
        /\ (i + Len(keyword) - 1 = Len(q) \/ ~IsWordChar(q[i + Len(keyword)]))

BlogCount(q) ==
    Cardinality({k \in DOMAIN BLOG_KEYWORDS : OccursAnyCase(BLOG_KEYWORDS[k], q)})

JournalCount(q) ==
    Cardinality({k \in DOMAIN JOURNAL_KEYWORDS : OccursAnyCase(JOURNAL_KEYWORDS[k], q)})

\* C5: blog exactly when more blog than journal patterns match, journal exactly
\* when more journal than blog patterns match, none on every tie; the case of
\* the query's letters does not matter
DetectPriority ==
    dpriority \notin {NoValue, "idle"} =>
        /\ dpriority = "blog" <=> BlogCount(dquery) > JournalCount(dquery)
        /\ dpriority = "journal" <=> JournalCount(dquery) > BlogCount(dquery)
        /\ dpriority = "none" <=> BlogCount(dquery) = JournalCount(dquery)

\* a tie of one upper-case blog word and one upper-case journal word
DetectPriorityWitness ==
    /\ dpriority = "none"
    /\ BlogCount(dquery) = 1
    /\ JournalCount(dquery) = 1
    /\ CountMatches(BLOG_KEYWORDS, dquery) = 0
    /\ CountMatches(JOURNAL_KEYWORDS, dquery) = 0

-----------------------------------------------------------------------------
(* Spec: documents are added to the vector store and queries are retrieved *)

SourceTypes == {DAYONE, WORDPRESS, WISDOM}

\* the queries asked: no keyword, a blog keyword, a journal keyword
Queries ==
    { <<"h","e","l","l","o">>,
      <<"m","y"," ","B","l","o","g">>,
      <<"j","o","u","r","n","a","l","?">> }

\* the explicit source filters passed: none, the source types as the store
\* spells them or in another case, and the specification's name "journal"
SourceFilters ==
    { NoFilter, DAYONE, <<"W","o","r","d","P","r","e","s","s">>, WISDOM,
      <<"j","o","u","r","n","a","l">> }

TopKArgs == {NoTopK} \cup 1..MaxTopK

Init ==
    /\ store = <<>>
    /\ rstage = "ready"
    /\ call = NoCall
    /\ searches = <<>>
    /\ result = MakeResult(<<>>, "none")
    /\ ChunkIdle
    /\ DetectIdle
    /\ ExtIdle

\* VectorStore.add_documents with one document; `distance` is the distance of
\* its embedding to the embedding of the queries asked
AddDocument(source_type, distance) ==
    /\ rstage = "ready"
    /\ Len(store) < MaxStore
    /\ store' = Append(store, [id |-> Len(store) + 1, source_type |-> source_type,
                               distance |-> distance])
    /\ UNCHANGED <<rstage, call, searches, result>>
    /\ UNCHANGED <<chunkVars, detectVars, extVars>>

\* get_retrieval_service().retrieve(query, top_k, source_filter)
Retrieve(query, top_k, source_filter) ==
    LET out == retrieve(store, DefaultTopK, query, top_k, source_filter)
    IN  /\ rstage = "ready"
        /\ rstage' = "returned"
        /\ call' = [query |-> query, top_k |-> top_k, source_filter |-> source_filter]
        /\ searches' = out.searches
        /\ result' = out.result
        /\ UNCHANGED store
        /\ UNCHANGED <<chunkVars, detectVars, extVars>>

\* the caller has used the result; the service is ready for the next call
Respond ==
    /\ rstage = "returned"
    /\ rstage' = "ready"
    /\ call' = NoCall
    /\ searches' = <<>>
    /\ result' = MakeResult(<<>>, "none")
    /\ UNCHANGED store
    /\ UNCHANGED <<chunkVars, detectVars, extVars>>

Next ==
    \/ \E s \in SourceTypes, d \in 0..MaxDist : AddDocument(s, d)
    \/ \E q \in Queries, k \in TopKArgs, f \in SourceFilters : Retrieve(q, k, f)
    \/ Respond

Spec == Init /\ [][Next]_vars

-----------------------------------------------------------------------------
(* Properties of the retrieval engine *)

\* the top_k in force for the last call
EffectiveTopK == IF call.top_k = NoTopK THEN DefaultTopK ELSE call.top_k

AtLeastOne(n) == IF n > 1 THEN n ELSE 1

CountOf(cs, source_type) ==
    Cardinality({i \in 1..Len(cs) : cs[i].source_type = source_type})

Ids(cs) == {cs[i].id : i \in 1..Len(cs)}

Unfiltered == rstage = "returned" /\ call.source_filter = NoFilter
Filtered == rstage = "returned" /\ call.source_filter # NoFilter

\* C1: with an explicit source_filter, whatever the detected priority, one
\* vector-store query is issued, on that source and with n_results = top_k, and
\* every returned chunk is of that source
ExplicitFilter ==
    Filtered =>
        /\ Len(searches) = 1
        /\ searches[1].where = lower(call.source_filter)
        /\ searches[1].n_results = EffectiveTopK
        /\ Len(result.chunks) <= EffectiveTopK
        /\ \A i \in 1..Len(result.chunks) :
              result.chunks[i].source_type = lower(call.source_filter)
        /\ Ids(result.chunks) = Ids(searches[1].returned)

\* a query with a blog keyword, filtered on the journal's source type, over a
\* store holding blog documents: journal chunks only
ExplicitFilterWitness ==
    /\ Filtered
    /\ result.detected_priority = "blog"
    /\ call.source_filter = DAYONE
    /\ CountOf(store, WORDPRESS) >= 1
    /\ Len(result.chunks) >= 1
    /\ CountOf(result.chunks, DAYONE) = Len(result.chunks)

\* C2: with no filter and no detected priority, each personal source is asked
\* for max(1, top_k // 2) results by its own filtered query and the result
\* holds at most that many chunks of each
BalancedQuota ==
    (Unfiltered /\ result.detected_priority = "none") =>
        LET per_source == AtLeastOne(EffectiveTopK \div 2)
        IN  /\ CountOf(result.chunks, DAYONE) <= per_source
            /\ CountOf(result.chunks, WORDPRESS) <= per_source
            /\ Len(searches) = 2
            /\ searches[1].where = DAYONE /\ searches[1].n_results = per_source
            /\ searches[2].where = WORDPRESS /\ searches[2].n_results = per_source
            /\ \A i \in 1..Len(result.chunks) :
                  \/ /\ result.chunks[i].source_type = DAYONE
                     /\ result.chunks[i].id \in Ids(searches[1].returned)
                  \/ /\ result.chunks[i].source_type = WORDPRESS
                     /\ result.chunks[i].id \in Ids(searches[2].returned)

\* the journal holds more documents than its quota and the result is filled
\* from both sources
BalancedQuotaWitness ==
    /\ Unfiltered
    /\ result.detected_priority = "none"
    /\ CountOf(store, DAYONE) > AtLeastOne(EffectiveTopK \div 2)
    /\ CountOf(result.chunks, DAYONE) = AtLeastOne(EffectiveTopK \div 2)
    /\ CountOf(result.chunks, WORDPRESS) >= 1

PrimarySource == IF result.detected_priority = "blog" THEN WORDPRESS ELSE DAYONE
OtherSource == IF result.detected_priority = "blog" THEN DAYONE ELSE WORDPRESS

Prioritized == Unfiltered /\ result.detected_priority \in {"blog", "journal"}

\* C3 as stated: the primary source is asked for max(1, round(top_k * 0.8))
\* results, the other personal source for max(1, top_k - primary_count)
PrioritizedRounded ==
    Prioritized =>
        LET primary_count == AtLeastOne((EffectiveTopK * 8 + 5) \div 10)
        IN  /\ Len(searches) = 2
            /\ searches[1].where = PrimarySource
            /\ searches[1].n_results = primary_count
            /\ searches[2].where = OtherSource
            /\ searches[2].n_results = AtLeastOne(EffectiveTopK - primary_count)

\* C3 amended: the primary source is asked for max(1, floor(top_k * 0.8))
\* results, the other personal source for max(1, top_k - primary_count)
PrioritizedTruncated ==
    Prioritized =>
        LET primary_count == AtLeastOne((EffectiveTopK * 4) \div 5)
        IN  /\ Len(searches) = 2
            /\ searches[1].where = PrimarySource
            /\ searches[1].n_results = primary_count
            /\ searches[2].where = OtherSource
            /\ searches[2].n_results = AtLeastOne(EffectiveTopK - primary_count)

\* top_k = 10 and a query with the word "journal": 8 journal and 2 blog slots
PrioritizedWitness ==
    /\ Prioritized
    /\ EffectiveTopK = 10
    /\ result.detected_priority = "journal"
    /\ searches[1].where = DAYONE /\ searches[1].n_results = 8
    /\ searches[2].where = WORDPRESS /\ searches[2].n_results = 2
    /\ CountOf(result.chunks, DAYONE) >= 1
    /\ CountOf(result.chunks, WORDPRESS) >= 1

\* the position of chunk c in the order the two queries returned their results
InsertionIndex(c) ==
    LET inserted == searches[1].returned \o searches[2].returned
    IN  Min({k \in 1..Len(inserted) : inserted[k].id = c.id})

\* C4: without a filter the chunks come by non-increasing relevance_score, and
\* chunks of equal score in the order the queries returned them, the first
\* query's before the second's
StableOrder ==
    Unfiltered =>
        \A i \in 1..Len(result.chunks), j \in 1..Len(result.chunks) :
            i < j =>
                /\ result.chunks[i].relevance_score >= result.chunks[j].relevance_score
                /\ result.chunks[i].relevance_score = result.chunks[j].relevance_score
                      => InsertionIndex(result.chunks[i]) < InsertionIndex(result.chunks[j])

\* a better chunk of the second source has moved before a chunk of the first,
\* which stays before its equal of the second source
StableOrderWitness ==
    /\ Unfiltered
    /\ Len(result.chunks) = 3
    /\ result.chunks[1].source_type = searches[2].where
    /\ result.chunks[2].source_type = searches[1].where
    /\ result.chunks[3].source_type = searches[2].where
    /\ result.chunks[1].relevance_score > result.chunks[2].relevance_score
    /\ result.chunks[2].relevance_score = result.chunks[3].relevance_score

ReturnedTotal ==
    Cardinality({<<i, j>> \in (1..Len(searches)) \X (1..MaxStore) :
                    j <= Len(searches[i].returned)})

\* C25: an unfiltered retrieve issues exactly two vector-store queries, one
\* for each personal source, and a filtered retrieve exactly one; the chunks
\* of the result are among the documents these queries returned, no more of
\* a source than its query returned
NoBackfill ==
    rstage = "returned" =>
        /\ Len(searches) = IF call.source_filter = NoFilter THEN 2 ELSE 1
        /\ call.source_filter = NoFilter =>
              {searches[1].where, searches[2].where} = {DAYONE, WORDPRESS}
        /\ \A i \in 1..Len(searches) :
              /\ Len(searches[i].returned) <= searches[i].n_results
              /\ CountOf(result.chunks, searches[i].where)
                    <= Len(searches[i].returned)
        /\ Ids(result.chunks) \subseteq
              UNION {Ids(searches[i].returned) : i \in 1..Len(searches)}

\* the first query returned less than it asked for, the store holds more
\* documents of the other source than the second query returned, and the
\* result has fewer than top_k chunks
NoBackfillWitness ==
    /\ Unfiltered
    /\ Len(searches[1].returned) < searches[1].n_results
    /\ CountOf(store, searches[2].where) > Len(searches[2].returned)
    /\ Len(result.chunks) < EffectiveTopK

\* C27: the result never has more than top_k chunks; without a filter it has
\* min(top_k, number of documents the two queries returned) chunks
AtMostTopK ==
    rstage = "returned" =>
        /\ Len(result.chunks) <= EffectiveTopK
        /\ call.source_filter = NoFilter =>
              Len(result.chunks) = Min({EffectiveTopK, ReturnedTotal})

\* the two queries returned more than top_k documents and the list was cut
AtMostTopKWitness ==
    /\ Unfiltered
    /\ ReturnedTotal > EffectiveTopK
    /\ Len(result.chunks) = EffectiveTopK

-----------------------------------------------------------------------------
(* SpecOpen: the store also holds documents whose source_type metadata is   *)
(* none of the three the service names, and retrieve is passed that value   *)

NOTES == <<"n","o","t","e","s">>

\* add_documents stores whatever metadata it is given
OpenSourceTypes == {DAYONE, WORDPRESS, WISDOM, NOTES}

OpenSourceFilters == {NoFilter, WISDOM, NOTES}

NextOpen ==
    \/ \E s \in OpenSourceTypes : AddDocument(s, 0)
    \/ \E f \in OpenSourceFilters : Retrieve(<<"h","e","l","l","o">>, NoTopK, f)
    \/ Respond

SpecOpen == Init /\ [][NextOpen]_vars

\* C11: journal_chunks, blog_chunks and wisdom_chunks are pairwise disjoint
\* and together hold exactly the chunks of the result: every chunk of
\* result.chunks is in exactly one of them
Partitioned ==
    rstage = "returned" =>
        /\ \A i \in 1..Len(result.chunks) :
              Cardinality({p \in {"journal", "blog", "wisdom"} :
                  result.chunks[i].id \in
                      Ids(CASE p = "journal" -> result.journal_chunks
                            [] p = "blog" -> result.blog_chunks
                            [] OTHER -> result.wisdom_chunks)}) = 1
        /\ Ids(result.journal_chunks) \cup Ids(result.blog_chunks)
              \cup Ids(result.wisdom_chunks) = Ids(result.chunks)
        /\ Len(result.journal_chunks) + Len(result.blog_chunks)
              + Len(result.wisdom_chunks) = Len(result.chunks)

-----------------------------------------------------------------------------
(* app/services/retrieval.py over collaborators that can raise: the vector  *)
(* store (initialize_db, collection.count, search) and the embedding        *)
(* service (embed_text)                                                     *)

\* stats["by_source"][source_type] = "unknown"
UnknownCount == 0 - 1

\* n_results = min(10000, total)
StatsLimit == 10000

\* for source_type in ["dayone", "wordpress", "wisdom"]
StatsSources == <<DAYONE, WORDPRESS, WISDOM>>

\* the most collaborator calls one operation makes: initialize_db, count,
\* embed_text and two searches for each source of get_source_stats
MaxCallsPerOperation == 3 + 2 * Len(StatsSources)

\* call number `position` of an operation raises when `faults` holds it
CollabCall(callee, where, position, faults) ==
    [callee |-> callee, where |-> where, raised |-> position \in faults]

\* if not vector_store: vector_store = initialize_db(settings.chroma_path)
InitializePlan(was_initialized) ==
    IF was_initialized THEN <<>>
    ELSE <<[callee |-> "initialize_db", where |-> NoFilter]>>

\* the calls of `plan` up to the first that raises: nothing catches it
Propagate(plan, faults) ==
    LET failing == {i \in 1..Len(plan) : i \in faults}
        last == IF failing = {} THEN Len(plan) ELSE Min(failing)
    IN  [i \in 1..last |-> CollabCall(plan[i].callee, plan[i].where, i, faults)]

\* the collaborator calls of retrieve when none raises
retrieve_plan(was_initialized, out) ==
    InitializePlan(was_initialized)
    \o <<[callee |-> "embed_text", where |-> NoFilter]>>
    \o [i \in 1..Len(out.searches) |->
           [callee |-> "search", where |-> out.searches[i].where]]

\* the searches of `made` that returned
Returned(made) == Cardinality({i \in 1..Len(made) :
                                  made[i].callee = "search" /\ ~made[i].raised})

\* mutant: a second sub-query that raises is caught and the result is built
\* from the first sub-query alone
retrieve_call_partial(was_initialized, docs, self_top_k, query, top_k_arg, source_filter, faults) ==
    LET Outcome(out, made, raised, caught) ==
            [calls |-> made,
             outcome |-> IF raised /\ ~caught THEN "raised" ELSE "returned",
             searches |-> SubSeq(out.searches, 1, Returned(made)),
             result |-> IF caught
                        THEN MakeResult(results_to_chunks(out.searches[1].returned),
                                        out.result.detected_priority)
                        ELSE IF raised THEN MakeResult(<<>>, "none") ELSE out.result,
             initialized |-> was_initialized \/ ~made[1].raised]
        Caught(out, made, raised) == Outcome(out, made, raised, raised /\ Returned(made) = 1)
        Made(out, made) == Caught(out, made, made[Len(made)].raised)
        Call(out) == Made(out, Propagate(retrieve_plan(was_initialized, out), faults))
    IN  Call(retrieve(docs, self_top_k, query, top_k_arg, source_filter))

\* RetrievalService.retrieve: no try statement, so the first collaborator call
\* that raises ends the call with that error and no RetrievalResult is built
retrieve_call(was_initialized, docs, self_top_k, query, top_k_arg, source_filter, faults) ==
    LET Outcome(out, made, raised) ==
            [calls |-> made,
             outcome |-> IF raised THEN "raised" ELSE "returned",
             searches |-> SubSeq(out.searches, 1, Returned(made)),
             result |-> IF raised THEN MakeResult(<<>>, "none") ELSE out.result,
             initialized |-> was_initialized \/ ~made[1].raised]
        Made(out, made) == Outcome(out, made, made[Len(made)].raised)
        Call(out) == Made(out, Propagate(retrieve_plan(was_initialized, out), faults))
    IN  Call(retrieve(docs, self_top_k, query, top_k_arg, source_filter))

\* mutant: a search that raises is tried once more before "unknown" is stored
RECURSIVE count_sources_retry(_, _, _, _)
count_sources_retry(docs, sources, position, faults) ==
    IF sources = <<>> THEN [calls |-> <<>>, by_source |-> <<>>]
    ELSE LET source_type == Head(sources)
             sample == CollabCall("search", source_type, position, faults)
             again == CollabCall("search", source_type, position + 1, faults)
             made == IF sample.raised THEN <<sample, again>> ELSE <<sample>>
             count == IF sample.raised /\ again.raised THEN UnknownCount
                      ELSE Len(search(docs, Min({StatsLimit, Len(docs)}), source_type))
             rest == count_sources_retry(docs, Tail(sources), position + Len(made), faults)
         IN  [calls |-> made \o rest.calls,
              by_source |-> <<[source_type |-> source_type, count |-> count]>>
                            \o rest.by_source]

\* get_source_stats, the loop over the source types: a search that raises is
\* caught, logged and stored as "unknown", and the loop goes on
RECURSIVE count_sources(_, _, _, _)
count_sources(docs, sources, position, faults) ==
    IF sources = <<>> THEN [calls |-> <<>>, by_source |-> <<>>]
    ELSE LET source_type == Head(sources)
             sample == CollabCall("search", source_type, position, faults)
             full == CollabCall("search", source_type, position + 1, faults)
             present == search(docs, 1, source_type) # <<>>
             made == IF ~sample.raised /\ present THEN <<sample, full>> ELSE <<sample>>
             count == IF sample.raised THEN UnknownCount
                      ELSE IF ~present THEN 0
                      ELSE IF full.raised THEN UnknownCount
                      ELSE Len(search(docs, Min({StatsLimit, Len(docs)}), source_type))
             rest == count_sources(docs, Tail(sources), position + Len(made), faults)
         IN  [calls |-> made \o rest.calls,
              by_source |-> <<[source_type |-> source_type, count |-> count]>>
                            \o rest.by_source]

\* get_source_stats
source_stats(was_initialized, docs, faults) ==
    LET total == Len(docs)
        plan == InitializePlan(was_initialized)
                \o <<[callee |-> "count", where |-> NoFilter]>>
                \o (IF total > 0 THEN <<[callee |-> "embed_text", where |-> NoFilter]>>
                    ELSE <<>>)
        made == Propagate(plan, faults)
        raised == made[Len(made)].raised
        counted == IF raised \/ total = 0 THEN [calls |-> <<>>, by_source |-> <<>>]
                   ELSE count_sources(docs, StatsSources, Len(made) + 1, faults)
    IN  [calls |-> made \o counted.calls,
         outcome |-> IF raised THEN "raised" ELSE "returned",
         by_source |-> counted.by_source,
         initialized |-> was_initialized \/ ~made[1].raised]

-----------------------------------------------------------------------------
(* SpecCollab: retrieve and get_source_stats are called while collaborator  *)
(* calls raise                                                              *)

\* the sets of call numbers that raise during one operation
FaultSets == {F \in SUBSET (1..MaxCallsPerOperation) : Cardinality(F) <= MaxFaults}

CollabQueries == { <<"h","e","l","l","o">>, <<"m","y"," ","B","l","o","g">> }

CollabFilters == {NoFilter, DAYONE, NOTES}

InitCollab ==
    /\ store = <<>>
    /\ rstage = "ready"
    /\ call = NoCall
    /\ searches = <<>>
    /\ result = MakeResult(<<>>, "none")
    /\ initialized = FALSE
    /\ operation = "none"
    /\ calls = <<>>
    /\ outcome = "none"
    /\ by_source = <<>>
    /\ ChunkIdle
    /\ DetectIdle
    /\ SingletonIdle
    /\ FormatIdle
    /\ IngestIdle
    /\ ChatIdle

\* documents are ingested into the persistent collection
CollabAddDocument(source_type) ==
    /\ rstage = "ready"
    /\ Len(store) < MaxStore
    /\ store' = Append(store, [id |-> Len(store) + 1, source_type |-> source_type,
                               distance |-> 0])
    /\ UNCHANGED <<rstage, call, searches, result>>
    /\ UNCHANGED <<chunkVars, detectVars, collabVars, singletonVars, formatVars, ingestVars, chatVars>>

\* get_retrieval_service().retrieve(query, source_filter = source_filter)
CollabRetrieve(query, source_filter, faults) ==
    LET out == retrieve_call(initialized, store, DefaultTopK, query, NoTopK,
                             source_filter, faults)
    IN  /\ rstage = "ready"
        /\ rstage' = "returned"
        /\ call' = [query |-> query, top_k |-> NoTopK, source_filter |-> source_filter]
        /\ searches' = out.searches
        /\ result' = out.result
        /\ initialized' = out.initialized
        /\ operation' = "retrieve"
        /\ calls' = out.calls
        /\ outcome' = out.outcome
        /\ by_source' = <<>>
        /\ UNCHANGED store
        /\ UNCHANGED <<chunkVars, detectVars, singletonVars, formatVars, ingestVars, chatVars>>

\* get_source_stats()
CollabStats(faults) ==
    LET out == source_stats(initialized, store, faults)
    IN  /\ rstage = "ready"
        /\ rstage' = "returned"
        /\ initialized' = out.initialized
        /\ operation' = "get_source_stats"
        /\ calls' = out.calls
        /\ outcome' = out.outcome
        /\ by_source' = out.by_source
        /\ UNCHANGED <<store, call, searches, result>>
        /\ UNCHANGED <<chunkVars, detectVars, singletonVars, formatVars, ingestVars, chatVars>>

\* the caller has seen the result or the error; the process goes on
CollabRespond ==
    /\ rstage = "returned"
    /\ rstage' = "ready"
    /\ call' = NoCall
    /\ searches' = <<>>
    /\ result' = MakeResult(<<>>, "none")
    /\ operation' = "none"
    /\ calls' = <<>>
    /\ outcome' = "none"
    /\ by_source' = <<>>
    /\ UNCHANGED <<store, initialized>>
    /\ UNCHANGED <<chunkVars, detectVars, singletonVars, formatVars, ingestVars, chatVars>>

NextCollab ==
    \/ \E s \in SourceTypes : CollabAddDocument(s)
    \/ \E q \in CollabQueries, f \in CollabFilters, F \in FaultSets :
          CollabRetrieve(q, f, F)
    \/ \E F \in FaultSets : CollabStats(F)
    \/ CollabRespond

SpecCollab == InitCollab /\ [][NextCollab]_vars

-----------------------------------------------------------------------------
(* Properties of the error handling *)

Raised(i) == i \in 1..Len(calls) /\ calls[i].raised

\* C13: when initialize_db, embed_text or a vector-store query of retrieve
\* raises, retrieve raises and no RetrievalResult is returned; a returned
\* result is never built while a collaborator call raised
AllOrNothing ==
    operation = "retrieve" =>
        /\ (\E i \in 1..Len(calls) : Raised(i)) =>
              /\ outcome = "raised"
              /\ result = MakeResult(<<>>, "none")
        /\ outcome = "returned" =>
              /\ \A i \in 1..Len(calls) : ~Raised(i)
              /\ Returned(calls) = Len(searches)

\* the first of two sub-queries returned a chunk, the second raised, and
\* retrieve raised
AllOrNothingWitness ==
    /\ operation = "retrieve"
    /\ call.source_filter = NoFilter
    /\ Len(searches) = 1
    /\ searches[1].returned # <<>>
    /\ Raised(Len(calls))
    /\ calls[Len(calls)].callee = "search"
    /\ outcome = "raised"

\* the source types the service names
Recognized(source_filter) == lower(source_filter) \in SourceTypes

\* C14: retrieve with an explicit filter that is no recognized source type
\* raises before any collaborator call: no embed_text, no vector-store query
FilterValidated ==
    (/\ operation = "retrieve"
     /\ call.source_filter # NoFilter
     /\ ~Recognized(call.source_filter)) =>
        /\ outcome = "raised"
        /\ calls = <<>>

\* C15 as stated: every collaborator call that raises ends the operation
\* with that error, in retrieve and in get_source_stats
NeverSwallowed ==
    operation \in {"retrieve", "get_source_stats"} =>
        \A i \in 1..Len(calls) :
            Raised(i) => outcome = "raised" /\ i = Len(calls)

CountOfSource(source_type) ==
    LET at == {k \in 1..Len(by_source) : by_source[k].source_type = source_type}
    IN  by_source[Min(at)].count

\* C15: retrieve propagates every collaborator error; get_source_stats
\* propagates the errors of initialize_db, count and embed_text, and turns a
\* search that raised into the count "unknown" of that source; a call that
\* raised is never made again
SwallowedOnlyInCounts ==
    operation \in {"retrieve", "get_source_stats"} =>
        \A i \in 1..Len(calls) :
            Raised(i) =>
                /\ (operation = "retrieve" \/ calls[i].callee # "search") =>
                      outcome = "raised" /\ i = Len(calls)
                /\ (operation = "get_source_stats" /\ calls[i].callee = "search") =>
                      /\ outcome = "returned"
                      /\ CountOfSource(calls[i].where) = UnknownCount
                      /\ \A j \in (i + 1)..Len(calls) : calls[j].where # calls[i].where

\* a search of get_source_stats raised, the count of its source is "unknown",
\* and the sources after it were still counted
SwallowedWitness ==
    /\ operation = "get_source_stats"
    /\ outcome = "returned"
    /\ Raised(Len(calls) - 2)
    /\ CountOfSource(calls[Len(calls) - 2].where) = UnknownCount
    /\ CountOfSource(calls[Len(calls)].where) >= 1

-----------------------------------------------------------------------------
(* SpecSingleton: the request handlers of POST /chat and GET /search over   *)
(* the lazily created module globals _vector_store, _embedding_service and  *)
(* _retrieval_service                                                       *)

Requests == 1..MaxRequests

Endpoints == {"chat", "search"}

\* mutant: the handlers run on worker threads, which switch at any step
OnLoopThreads(r) == TRUE

\* chat and search are `async def` handlers without an await: the event loop
\* runs the handler of one request from its first step to its last before it
\* takes the next request
OnLoop(r) == running \in {0, r}

InitSingleton ==
    /\ vector_store = 0
    /\ embedding_service = 0
    /\ retrieval_service = [exists |-> FALSE, embedding |-> 0]
    /\ built = [store |-> 0, embedding |-> 0]
    /\ pc = [r \in Requests |-> "idle"]
    /\ kind = [r \in Requests |-> "none"]
    /\ used = [r \in Requests |-> [store |-> 0, embedding |-> 0]]
    /\ running = 0
    /\ ChunkIdle
    /\ DetectIdle
    /\ RetrievalIdle
    /\ CollabIdle
    /\ FormatIdle
    /\ IngestIdle
    /\ ChatIdle

\* the handler of r moves to position `to`; the loop is free after its last step
Goto(r, to) ==
    /\ pc' = [pc EXCEPT ![r] = to]
    /\ running' = IF to \in {"done", "failed"} THEN 0 ELSE r

\* where a handler goes once it holds the embedding service: __init__ of
\* RetrievalService returns to get_retrieval_service, search embeds the query
AfterEmbeddingService(r) ==
    IF kind[r] = "chat" THEN "set_retrieval_service" ELSE "query"

\* where a handler goes once it holds the vector store
AfterVectorStore(r) ==
    IF kind[r] = "chat" THEN "query" ELSE "get_embedding_service"

\* a request reaches the server
Arrive(r, endpoint) ==
    /\ pc[r] = "idle"
    /\ pc' = [pc EXCEPT ![r] = "arrived"]
    /\ kind' = [kind EXCEPT ![r] = endpoint]
    /\ UNCHANGED <<vector_store, embedding_service, retrieval_service, built, used,
                   running>>
    /\ UNCHANGED <<chunkVars, detectVars, retrievalVars, collabVars, formatVars, ingestVars, chatVars>>

\* the handler of the request starts
Dispatch(r) ==
    /\ pc[r] = "arrived"
    /\ OnLoop(r)
    /\ Goto(r, IF kind[r] = "chat" THEN "get_retrieval_service" ELSE "get_vector_store")
    /\ UNCHANGED <<vector_store, embedding_service, retrieval_service, built, kind, used>>
    /\ UNCHANGED <<chunkVars, detectVars, retrievalVars, collabVars, formatVars, ingestVars, chatVars>>

\* get_retrieval_service: if _retrieval_service is None
GetRetrievalService(r) ==
    /\ pc[r] = "get_retrieval_service"
    /\ OnLoop(r)
    /\ IF retrieval_service.exists
       THEN /\ used' = [used EXCEPT ![r].embedding = retrieval_service.embedding]
            /\ Goto(r, "get_vector_store")
       ELSE /\ Goto(r, "get_embedding_service")
            /\ UNCHANGED used
    /\ UNCHANGED <<vector_store, embedding_service, retrieval_service, built, kind>>
    /\ UNCHANGED <<chunkVars, detectVars, retrievalVars, collabVars, formatVars, ingestVars, chatVars>>

\* get_embedding_service: if _embedding_service is None
GetEmbeddingService(r) ==
    /\ pc[r] = "get_embedding_service"
    /\ OnLoop(r)
    /\ IF embedding_service # 0
       THEN /\ used' = [used EXCEPT ![r].embedding = embedding_service]
            /\ Goto(r, AfterEmbeddingService(r))
       ELSE /\ Goto(r, "load_model")
            /\ UNCHANGED used
    /\ UNCHANGED <<vector_store, embedding_service, retrieval_service, built, kind>>
    /\ UNCHANGED <<chunkVars, detectVars, retrievalVars, collabVars, formatVars, ingestVars, chatVars>>

\* _embedding_service = EmbeddingService(model_name), which may raise
LoadModel(r, ok) ==
    /\ pc[r] = "load_model"
    /\ OnLoop(r)
    /\ IF ok
       THEN /\ built' = [built EXCEPT !.embedding = built.embedding + 1]
            /\ embedding_service' = built.embedding + 1
            /\ used' = [used EXCEPT ![r].embedding = built.embedding + 1]
            /\ Goto(r, AfterEmbeddingService(r))
       ELSE /\ Goto(r, "failed")
            /\ UNCHANGED <<built, embedding_service, used>>
    /\ UNCHANGED <<vector_store, retrieval_service, kind>>
    /\ UNCHANGED <<chunkVars, detectVars, retrievalVars, collabVars, formatVars, ingestVars, chatVars>>

\* _retrieval_service = RetrievalService(top_k = settings.retrieval_top_k)
SetRetrievalService(r) ==
    /\ pc[r] = "set_retrieval_service"
    /\ OnLoop(r)
    /\ retrieval_service' = [exists |-> TRUE, embedding |-> used[r].embedding]
    /\ Goto(r, "get_vector_store")
    /\ UNCHANGED <<vector_store, embedding_service, built, kind, used>>
    /\ UNCHANGED <<chunkVars, detectVars, retrievalVars, collabVars, formatVars, ingestVars, chatVars>>

\* vector_store = get_vector_store(); if not vector_store
GetVectorStore(r) ==
    /\ pc[r] = "get_vector_store"
    /\ OnLoop(r)
    /\ IF vector_store # 0
       THEN /\ used' = [used EXCEPT ![r].store = vector_store]
            /\ Goto(r, AfterVectorStore(r))
       ELSE /\ Goto(r, "initialize_db")
            /\ UNCHANGED used
    /\ UNCHANGED <<vector_store, embedding_service, retrieval_service, built, kind>>
    /\ UNCHANGED <<chunkVars, detectVars, retrievalVars, collabVars, formatVars, ingestVars, chatVars>>

\* vector_store = initialize_db(settings.chroma_path), which may raise
InitializeDb(r, ok) ==
    /\ pc[r] = "initialize_db"
    /\ OnLoop(r)
    /\ IF ok
       THEN /\ built' = [built EXCEPT !.store = built.store + 1]
            /\ vector_store' = built.store + 1
            /\ used' = [used EXCEPT ![r].store = built.store + 1]
            /\ Goto(r, AfterVectorStore(r))
       ELSE /\ Goto(r, "failed")
            /\ UNCHANGED <<built, vector_store, used>>
    /\ UNCHANGED <<embedding_service, retrieval_service, kind>>
    /\ UNCHANGED <<chunkVars, detectVars, retrievalVars, collabVars, formatVars, ingestVars, chatVars>>

\* embed_text and vector_store.search on the instances the handler holds
Query(r) ==
    /\ pc[r] = "query"
    /\ OnLoop(r)
    /\ Goto(r, "done")
    /\ UNCHANGED <<vector_store, embedding_service, retrieval_service, built, kind, used>>
    /\ UNCHANGED <<chunkVars, detectVars, retrievalVars, collabVars, formatVars, ingestVars, chatVars>>

NextSingleton ==
    \/ \E r \in Requests, e \in Endpoints : Arrive(r, e)
    \/ \E r \in Requests : Dispatch(r)
    \/ \E r \in Requests : GetRetrievalService(r)
    \/ \E r \in Requests : GetEmbeddingService(r)
    \/ \E r \in Requests, ok \in BOOLEAN : LoadModel(r, ok)
    \/ \E r \in Requests : SetRetrievalService(r)
    \/ \E r \in Requests : GetVectorStore(r)
    \/ \E r \in Requests, ok \in BOOLEAN : InitializeDb(r, ok)
    \/ \E r \in Requests : Query(r)

SpecSingleton == InitSingleton /\ [][NextSingleton]_vars

\* C16: from an uninitialized process and for every order in which the
\* requests are served, at most one vector store and at most one embedding
\* service are constructed, and the requests all work with that instance
ConstructedOnce ==
    /\ built.store <= 1
    /\ built.embedding <= 1
    /\ \A r \in DOMAIN used :
          /\ used[r].store \in {0, vector_store}
          /\ used[r].embedding \in {0, embedding_service}

\* a chat request and a search request have both been served, and both have
\* queried the one store with the one embedding service
ConstructedOnceWitness ==
    /\ pc = [r \in Requests |-> "done"]
    /\ \E r \in Requests : kind[r] = "chat"
    /\ \E r \in Requests : kind[r] = "search"
    /\ \A r \in Requests : used[r] = [store |-> 1, embedding |-> 1]
    /\ built = [store |-> 1, embedding |-> 1]

-----------------------------------------------------------------------------
(* app/services/retrieval.py: _format_context, and get_system_prompt of     *)
(* app/prompts/system_prompt.py                                             *)

JOURNAL_HEADER ==
    <<"=","=","="," ","F","R","O","M"," ","Y","O","U","R"," ","P","R","I","V","A","T","E",
      " ","J","O","U","R","N","A","L"," ","=","=","=">>

JOURNAL_NOTE ==
    <<"(","P","e","r","s","o","n","a","l"," ","r","e","f","l","e","c","t","i","o","n","s",
      " ","w","r","i","t","t","e","n"," ","f","o","r"," ","y","o","u","r","s","e","l","f",
      ","," ","n","o","t"," ","f","o","r"," ","o","t","h","e","r","s",")","\n">>

BLOG_HEADER ==
    <<"=","=","="," ","F","R","O","M"," ","Y","O","U","R"," ","P","U","B","L","I","C"," ",
      "W","R","I","T","I","N","G"," ","=","=","=">>

BLOG_NOTE ==
    <<"(","B","l","o","g"," ","p","o","s","t","s"," ","a","n","d"," ","e","s","s","a","y",
      "s"," ","y","o","u"," ","p","u","b","l","i","s","h","e","d"," ","f","o","r"," ","o",
      "t","h","e","r","s"," ","t","o"," ","r","e","a","d",")","\n">>

WISDOM_HEADER ==
    <<"=","=","="," ","F","R","O","M"," ","C","O","N","T","E","M","P","L","A","T","I","V",
      "E"," ","T","R","A","D","I","T","I","O","N","S"," ","=","=","=">>

NO_CONTEXT ==
    <<"[","N","o"," ","r","e","l","e","v","a","n","t"," ","c","o","n","t","e","x","t"," ",
      "f","o","u","n","d","]">>

UNKNOWN_DATE ==
    <<"U","n","k","n","o","w","n"," ","d","a","t","e">>

UNTITLED ==
    <<"U","n","t","i","t","l","e","d">>

UNKNOWN_SOURCE ==
    <<"U","n","k","n","o","w","n"," ","s","o","u","r","c","e">>

JOURNAL_LABEL ==
    <<"[","F","r","o","m"," ","y","o","u","r"," ","p","e","r","s","o","n","a","l"," ","j",
      "o","u","r","n","a","l"," ","-"," ">>

BLOG_LABEL ==
    <<"[","F","r","o","m"," ","y","o","u","r"," ","b","l","o","g"," ","p","o","s","t"," ",
      "\"">>

\* an ISO date of the metadata and what strftime("%B %d, %Y") makes of it
IsoDate ==
    <<"2","0","2","4","-","0","1","-","0","5">>

DisplayDate ==
    <<"J","a","n","u","a","r","y"," ","0","5",","," ","2","0","2","4">>

\* MENTOR_SYSTEM_PROMPT up to {context_section}, abridged to its first sentence
MENTOR_SYSTEM_PROMPT ==
    <<"Y","o","u"," ","a","r","e"," ","a"," ","p","e","r","s","o","n","a","l"," ","m","e",
      "n","t","o","r"," ","a","n","d"," ","c","o","n","t","e","m","p","l","a","t","i","v",
      "e"," ","c","o","m","p","a","n","i","o","n",".","\n","\n">>

CONTEXT_HEADING ==
    <<"\n","#","#"," ","R","e","t","r","i","e","v","e","d"," ","C","o","n","t","e","x","t",
      "\n","\n">>

CONTEXT_NOTE ==
    <<"T","h","e"," ","f","o","l","l","o","w","i","n","g"," ","i","s"," ","r","e","l","e",
      "v","a","n","t"," ","c","o","n","t","e","x","t"," ","r","e","t","r","i","e","v","e",
      "d"," ","f","r","o","m"," ","t","h","e"," ","u","s","e","r","'","s"," ","p","e","r",
      "s","o","n","a","l"," ","h","i","s","t","o","r","y"," ","a","n","d"," ","w","i","s",
      "d","o","m"," ","t","r","a","d","i","t","i","o","n","s","."," ","U","s","e"," ","i",
      "t"," ","n","a","t","u","r","a","l","l","y"," ","i","f"," ","i","t","'","s"," ","r",
      "e","l","e","v","a","n","t"," ","t","o"," ","t","h","e"," ","c","o","n","v","e","r",
      "s","a","t","i","o","n",","," ","b","u","t"," ","d","o","n","'","t"," ","f","o","r",
      "c","e"," ","i","t",".","\n","\n">>

NewLine == <<"\n">>

\* metadata.get(key, default): <<>> stands for a key the metadata lacks
Get(value, default) == IF value = <<>> THEN default ELSE value

\* RetrievalService._format_date: fromisoformat of IsoDate succeeds, of any
\* other string of the model it raises ValueError and the string is returned
format_date(date_str) ==
    IF date_str = <<>> \/ date_str = UNKNOWN_DATE THEN UNKNOWN_DATE
    ELSE IF date_str = IsoDate THEN DisplayDate
    ELSE date_str

\* the lines every chunk adds: its label, its stripped text, an empty line
EntryLines(cs, labels) ==
    [k \in 1..(3 * Len(cs)) |->
        LET i == (k + 2) \div 3
        IN  IF k % 3 = 1 THEN labels[i] ELSE IF k % 3 = 2 THEN strip(cs[i].text) ELSE <<>>]

\* RetrievalService._format_journal_chunks
format_journal_chunks(cs) ==
    LET label(c) == JOURNAL_LABEL \o format_date(Get(c.date, UNKNOWN_DATE)) \o <<"]">>
    IN  join(NewLine, <<JOURNAL_HEADER, JOURNAL_NOTE>> \o EntryLines(cs, [i \in 1..Len(cs) |-> label(cs[i])]))

\* RetrievalService._format_blog_chunks
format_blog_chunks(cs) ==
    LET label(c) == BLOG_LABEL \o Get(c.title, UNTITLED) \o <<"\"", " ", "-", " ">>
                    \o format_date(Get(c.date, UNKNOWN_DATE)) \o <<"]">>
    IN  join(NewLine, <<BLOG_HEADER, BLOG_NOTE>> \o EntryLines(cs, [i \in 1..Len(cs) |-> label(cs[i])]))

\* RetrievalService._format_wisdom_chunks
format_wisdom_chunks(cs) ==
    LET label(c) == IF c.tradition # <<>>
                    THEN <<"[">> \o c.tradition \o <<":", " ">>
                         \o Get(c.source, UNKNOWN_SOURCE) \o <<"]">>
                    ELSE <<"[">> \o Get(c.source, UNKNOWN_SOURCE) \o <<"]">>
    IN  join(NewLine, <<WISDOM_HEADER \o NewLine>> \o EntryLines(cs, [i \in 1..Len(cs) |-> label(cs[i])]))

\* the sections of the non-empty groups, journal, blog, wisdom
Sections(journal_chunks, blog_chunks, wisdom_chunks) ==
    (IF journal_chunks # <<>> THEN <<format_journal_chunks(journal_chunks)>> ELSE <<>>)
    \o (IF blog_chunks # <<>> THEN <<format_blog_chunks(blog_chunks)>> ELSE <<>>)
    \o (IF wisdom_chunks # <<>> THEN <<format_wisdom_chunks(wisdom_chunks)>> ELSE <<>>)

\* mutant: without sections the empty string is returned
format_context_blank(journal_chunks, blog_chunks, wisdom_chunks) ==
    join(ParaSep, Sections(journal_chunks, blog_chunks, wisdom_chunks))

\* mutant: the blog section is put before the journal section
format_context_blog_first(journal_chunks, blog_chunks, wisdom_chunks) ==
    LET sections ==
            (IF blog_chunks # <<>> THEN <<format_blog_chunks(blog_chunks)>> ELSE <<>>)
            \o (IF journal_chunks # <<>> THEN <<format_journal_chunks(journal_chunks)>>
                ELSE <<>>)
            \o (IF wisdom_chunks # <<>> THEN <<format_wisdom_chunks(wisdom_chunks)>>
                ELSE <<>>)
    IN  IF sections = <<>> THEN NO_CONTEXT ELSE join(ParaSep, sections)

\* RetrievalService._format_context
format_context(journal_chunks, blog_chunks, wisdom_chunks) ==
    LET sections == Sections(journal_chunks, blog_chunks, wisdom_chunks)
    IN  IF sections = <<>> THEN NO_CONTEXT ELSE join(ParaSep, sections)

\* get_system_prompt
get_system_prompt(context) ==
    LET context_section == IF context # <<>>
                           THEN CONTEXT_HEADING \o CONTEXT_NOTE \o context
                           ELSE <<>>
    IN  MENTOR_SYSTEM_PROMPT \o context_section

-----------------------------------------------------------------------------
(* SpecFormat: chunk lists are formatted and put into the system prompt *)

NoMetadata ==
    [text |-> <<>>, date |-> <<>>, title |-> <<>>, source |-> <<>>, tradition |-> <<>>]

\* the chunks handed over: a bare text, a text between whitespace with all
\* its metadata, and a text that is itself a line like a section header
FormatChunks ==
    { [NoMetadata EXCEPT !.text = <<"a">>],
      [text |-> <<" ", "b", "\n">>, date |-> IsoDate, title |-> <<"T">>,
       source |-> <<"S">>, tradition |-> <<"Z", "e", "n">>],
      [NoMetadata EXCEPT !.text = BLOG_HEADER] }

GroupNames == {"journal", "blog", "wisdom"}

InitFormat ==
    /\ fgroups = [journal |-> <<>>, blog |-> <<>>, wisdom |-> <<>>]
    /\ fstage = "build"
    /\ formatted_context = <<>>
    /\ system_prompt = <<>>
    /\ ChunkIdle
    /\ DetectIdle
    /\ RetrievalIdle
    /\ CollabIdle
    /\ SingletonIdle
    /\ IngestIdle
    /\ ChatIdle

\* a retrieved chunk is put at the end of the list of its source
FormatAdd(g, c) ==
    /\ fstage = "build"
    /\ Len(fgroups.journal) + Len(fgroups.blog) + Len(fgroups.wisdom) < MaxChunks
    /\ fgroups' = [fgroups EXCEPT ![g] = Append(@, c)]
    /\ UNCHANGED <<fstage, formatted_context, system_prompt>>
    /\ UNCHANGED <<chunkVars, detectVars, retrievalVars, collabVars, singletonVars, ingestVars, chatVars>>

\* formatted_context = self._format_context(journal_chunks, blog_chunks,
\* wisdom_chunks); system_prompt = get_system_prompt(formatted_context)
FormatCall ==
    LET context == format_context(fgroups.journal, fgroups.blog, fgroups.wisdom)
    IN  /\ fstage = "build"
        /\ fstage' = "formatted"
        /\ formatted_context' = context
        /\ system_prompt' = get_system_prompt(context)
        /\ UNCHANGED fgroups
        /\ UNCHANGED <<chunkVars, detectVars, retrievalVars, collabVars, singletonVars, ingestVars, chatVars>>

NextFormat ==
    \/ \E g \in GroupNames, c \in FormatChunks : FormatAdd(g, c)
    \/ FormatCall

SpecFormat == InitFormat /\ [][NextFormat]_vars

-----------------------------------------------------------------------------
(* Properties of the formatter *)

Formatted == fstage = "formatted"

\* the positions at which `sub` occurs in s
Positions(sub, s) ==
    {i \in 1..(Len(s) - Len(sub) + 1) : SubSeq(s, i, i + Len(sub) - 1) = sub}

Occurs(sub, s) == Positions(sub, s) # {}

EndsWith(s, suffix) ==
    /\ Len(suffix) <= Len(s)
    /\ SubSeq(s, Len(s) - Len(suffix) + 1, Len(s)) = suffix

\* C17: _format_context of three empty groups is the sentinel
\* "[No relevant context found]", its result is never the empty string, and
\* get_system_prompt therefore always appends the Retrieved Context section,
\* which ends with the formatted context
NonEmptyContext ==
    Formatted =>
        /\ formatted_context # <<>>
        /\ (fgroups.journal = <<>> /\ fgroups.blog = <<>> /\ fgroups.wisdom = <<>>)
              => formatted_context = NO_CONTEXT
        /\ Occurs(CONTEXT_HEADING, system_prompt)
        /\ EndsWith(system_prompt, CONTEXT_NOTE \o formatted_context)

\* three empty groups were formatted into the sentinel
NonEmptyContextWitness ==
    /\ Formatted
    /\ fgroups.journal = <<>> /\ fgroups.blog = <<>> /\ fgroups.wisdom = <<>>
    /\ formatted_context = NO_CONTEXT
    /\ Occurs(NO_CONTEXT, system_prompt)

GroupOrder == <<"journal", "blog", "wisdom">>

Header(g) ==
    CASE g = "journal" -> JOURNAL_HEADER
      [] g = "blog" -> BLOG_HEADER
      [] g = "wisdom" -> WISDOM_HEADER

AllChunks == fgroups.journal \o fgroups.blog \o fgroups.wisdom

\* a string as a whole line inside the context
Line(t) == NewLine \o t \o NewLine

\* a group of the fixed order that is before another one
Before(g, h) ==
    \E i \in 1..Len(GroupOrder), j \in 1..Len(GroupOrder) :
        i < j /\ GroupOrder[i] = g /\ GroupOrder[j] = h

\* the header of every group before the header of every later group
HeadersInOrder ==
    \A g \in GroupNames, h \in GroupNames :
        (Before(g, h) /\ fgroups[g] # <<>> /\ fgroups[h] # <<>>) =>
            Min(Positions(Header(g), formatted_context))
                < Max(Positions(Header(h), formatted_context))

\* the position after the lines `texts`, found in this order in s from
\* position `from` on; 0 when they are not all there
RECURSIVE After(_, _, _)
After(texts, s, from) ==
    IF texts = <<>> THEN from
    ELSE LET at == Find(s, Line(Head(texts)), from)
         IN  IF at = 0 THEN 0 ELSE After(Tail(texts), s, at + Len(Head(texts)) + 1)

\* where the section of group g ends at the latest: at the header of the
\* next group that has chunks
SectionLimit(g) ==
    LET later == {h \in GroupNames : Before(g, h) /\ fgroups[h] # <<>>}
    IN  IF later = {} THEN Len(formatted_context) + 1
        ELSE Min({Max(Positions(Header(h), formatted_context)) : h \in later})

\* the lines `texts` of group g are in its section, in this order
InSection(g, texts) ==
    LET start == Min(Positions(Header(g), formatted_context))
        end == After(texts, formatted_context, start)
    IN  end # 0 /\ end <= SectionLimit(g)

Texts(cs) == [i \in 1..Len(cs) |-> cs[i].text]
Stripped(cs) == [i \in 1..Len(cs) |-> strip(cs[i].text)]

HasHeader(t) == \E g \in GroupNames : Occurs(Header(g), t)

-----------------------------------------------------------------------------
(* scripts/ingest_dayone.py and scripts/ingest_wordpress.py: documents are  *)
(* cut into chunks that carry an id and metadata                            *)

\* chunk_text(text, target_tokens = 650, max_tokens = 800)
DefaultTargetTokens == 650
DefaultMaxTokens == 800

DecimalDigits == <<"0", "1", "2", "3", "4", "5", "6", "7", "8", "9">>

\* str(n) of an index, as the f-strings format it
RECURSIVE ToDecimal(_)
ToDecimal(n) ==
    IF n < 10 THEN <<DecimalDigits[n + 1]>>
    ELSE ToDecimal(n \div 10) \o <<DecimalDigits[(n % 10) + 1]>>

\* scripts/ingest_wordpress.py has its own estimate_tokens and chunk_text
wp_estimate_tokens(t) == Len(t) \div 4

\* chunks.append('\n\n'.join(current_chunk)), when current_chunk is not empty
wp_flush(acc) ==
    IF acc.current_chunk = <<>> THEN acc.chunks
    ELSE Append(acc.chunks, join(ParaSep, acc.current_chunk))

\* the if / else on a sentence (lines 89-96) or on a paragraph (lines 99-105)
wp_add_unit(acc, unit, target) ==
    IF acc.current_tokens + wp_estimate_tokens(unit) > target /\ acc.current_chunk # <<>>
    THEN [chunks |-> wp_flush(acc),
          current_chunk |-> <<unit>>,
          current_tokens |-> wp_estimate_tokens(unit)]
    ELSE [chunks |-> acc.chunks,
          current_chunk |-> acc.current_chunk \o <<unit>>,
          current_tokens |-> acc.current_tokens + wp_estimate_tokens(unit)]

\* for sentence in sentences, from sentence number i on
RECURSIVE wp_sentence_loop(_, _, _, _)
wp_sentence_loop(acc, sentences, i, target) ==
    IF i > Len(sentences) THEN acc
    ELSE wp_sentence_loop(wp_add_unit(acc, sentences[i], target), sentences, i + 1, target)

\* for paragraph in paragraphs, from paragraph number i on
RECURSIVE wp_paragraph_loop(_, _, _, _, _)
wp_paragraph_loop(acc, paragraphs, i, target, max) ==
    IF i > Len(paragraphs) THEN acc
    ELSE LET paragraph == strip(paragraphs[i])
             after == IF paragraph = <<>> THEN acc
                      ELSE IF wp_estimate_tokens(paragraph) > max
                      THEN wp_sentence_loop(acc, split(paragraph, SentSep), 1, target)
                      ELSE wp_add_unit(acc, paragraph, target)
         IN  wp_paragraph_loop(after, paragraphs, i + 1, target, max)

\* mutant: a text whose estimate equals max_tokens is split
wp_chunk_text_below(t, target, max) ==
    IF wp_estimate_tokens(t) < max THEN <<t>>
    ELSE wp_flush(wp_paragraph_loop(EmptyAcc, split(t, ParaSep), 1, target, max))

\* chunk_text of scripts/ingest_wordpress.py
wp_chunk_text(t, target, max) ==
    IF wp_estimate_tokens(t) <= max THEN <<t>>
    ELSE wp_flush(wp_paragraph_loop(EmptyAcc, split(t, ParaSep), 1, target, max))

CHUNK_INFIX == <<"_", "c", "h", "u", "n", "k", "_">>
WP_PREFIX == <<"w", "p", "_">>

\* parse_dayone_entry: entry.get("uuid", ""), entry.get("text", "")
parse_dayone_entry(entry) == [uuid |-> entry.id, text |-> entry.text]

\* mutant: chunks are numbered from one
process_entry_from_one(entry_data, entry_index) ==
    IF strip(entry_data.text) = <<>> THEN <<>>
    ELSE LET cs == chunk_text(entry_data.text, DefaultTargetTokens, DefaultMaxTokens)
         IN  [i \in 1..Len(cs) |->
                 [id |-> entry_data.uuid \o CHUNK_INFIX \o ToDecimal(i),
                  text |-> cs[i],
                  metadata |-> [source_type |-> DAYONE,
                                document_id |-> entry_data.uuid,
                                document_index |-> entry_index,
                                chunk_index |-> i,
                                total_chunks |-> Len(cs)]]]

\* process_entry; enumerate counts from 0. The metadata keys entry_id and
\* entry_index are document_id and document_index here
process_entry(entry_data, entry_index) ==
    IF strip(entry_data.text) = <<>> THEN <<>>
    ELSE LET cs == chunk_text(entry_data.text, DefaultTargetTokens, DefaultMaxTokens)
         IN  [i \in 1..Len(cs) |->
                 [id |-> entry_data.uuid \o CHUNK_INFIX \o ToDecimal(i - 1),
                  text |-> cs[i],
                  metadata |-> [source_type |-> DAYONE,
                                document_id |-> entry_data.uuid,
                                document_index |-> entry_index,
                                chunk_index |-> i - 1,
                                total_chunks |-> Len(cs)]]]

\* process_post of a post whose raw content is plain text without markup:
\* of strip_html its last step, text.strip(), acts on it. The metadata keys
\* post_id and post_index are document_id and document_index here
process_post(post_data, post_index) ==
    IF strip(post_data.text) = <<>> THEN <<>>
    ELSE LET clean_text == strip(post_data.text)
             full_text == IF post_data.title # <<>>
                          THEN post_data.title \o ParaSep \o clean_text
                          ELSE clean_text
             cs == wp_chunk_text(full_text, DefaultTargetTokens, DefaultMaxTokens)
         IN  [i \in 1..Len(cs) |->
                 [id |-> WP_PREFIX \o post_data.id \o CHUNK_INFIX \o ToDecimal(i - 1),
                  text |-> cs[i],
                  metadata |-> [source_type |-> WORDPRESS,
                                document_id |-> post_data.id,
                                document_index |-> post_index,
                                chunk_index |-> i - 1,
                                total_chunks |-> Len(cs)]]]

\* the loop of ingest_dayone_export / ingest_wordpress_export over the
\* documents from position `idx` (counted from 0) on
RECURSIVE process_all(_, _, _)
process_all(source, docs, idx) ==
    IF idx >= Len(docs) THEN <<>>
    ELSE (IF source = "dayone"
          THEN process_entry(parse_dayone_entry(docs[idx + 1]), idx)
          ELSE process_post(docs[idx + 1], idx))
         \o process_all(source, docs, idx + 1)

\* mutant: the services are initialized before the chunks are looked at
ingest_calls_eager(all_chunks) ==
    <<"get_embedding_service", "initialize_db">>
    \o (IF all_chunks = <<>> THEN <<>>
        ELSE <<"embed_batch", "add_documents", "get_collection_stats">>)

\* ingest_dayone_export / ingest_wordpress_export after the loop: the calls
\* to the embedding service and the vector store; with no chunk the function
\* returns before the first of them
ingest_calls(all_chunks) ==
    IF all_chunks = <<>> THEN <<>>
    ELSE <<"get_embedding_service", "initialize_db", "embed_batch", "add_documents",
           "get_collection_stats">>

\* the chunks that add_documents wrote to the collection
added_documents(all_chunks, made) ==
    IF \E i \in 1..Len(made) : made[i] = "add_documents" THEN all_chunks ELSE <<>>

-----------------------------------------------------------------------------
(* SpecIngest: an export is put together and ingested *)

\* a document of two or three paragraphs that is above max_tokens
LongText(paragraphs) ==
    join(ParaSep, [i \in 1..paragraphs |-> ScenarioParagraph(ParagraphLength)])

\* the texts of the documents: blank, one short chunk with and without
\* white space around it, two and three chunks
IngestTexts == { <<" ">>, <<"a">>, <<" ", "a", "\n">>, LongText(2), LongText(3) }

\* the document ids: <<>> is an entry without "uuid" or a post without
\* wp:post_id, which the parsers read as ""
DocumentIds == { <<>>, <<"A">>, <<"B">> }

IngestDocuments ==
    {[id |-> i, title |-> <<>>, text |-> t] : i \in DocumentIds, t \in IngestTexts}
    \cup {[id |-> <<"A">>, title |-> <<"T">>, text |-> <<"a">>]}

InitIngest ==
    /\ isource \in {"dayone", "wordpress"}
    /\ documents = <<>>
    /\ istage = "build"
    /\ ingested = <<>>
    /\ icalls = <<>>
    /\ ChunkIdle
    /\ DetectIdle
    /\ RetrievalIdle
    /\ CollabIdle
    /\ SingletonIdle
    /\ FormatIdle
    /\ ChatIdle

\* the export holds one more entry or post
IngestAdd(d) ==
    /\ istage = "build"
    /\ Len(documents) < MaxDocuments
    /\ documents' = Append(documents, d)
    /\ UNCHANGED <<isource, istage, ingested, icalls>>
    /\ UNCHANGED <<chunkVars, detectVars, retrievalVars, collabVars, singletonVars,
                   formatVars, chatVars>>

\* ingest_dayone_export / ingest_wordpress_export: ingested are the chunks
\* whose ids, texts and metadata go to vector_store.add_documents, after
\* the calls that initialize the services and embed the texts
IngestRun ==
    /\ istage = "build"
    /\ istage' = "ingested"
    /\ \E all_chunks \in {process_all(isource, documents, 0)} :
          /\ icalls' = ingest_calls(all_chunks)
          /\ ingested' = added_documents(all_chunks, icalls')
    /\ UNCHANGED <<isource, documents>>
    /\ UNCHANGED <<chunkVars, detectVars, retrievalVars, collabVars, singletonVars,
                   formatVars, chatVars>>

NextIngest ==
    \/ \E d \in IngestDocuments : IngestAdd(d)
    \/ IngestRun

SpecIngest == InitIngest /\ [][NextIngest]_vars

-----------------------------------------------------------------------------
(* Properties of the ingestion *)

Ingested == istage = "ingested"

\* the chunks of the document at position d (counted from 0) of the export
ChunksOfDocument(d) == SelectSeq(ingested, LAMBDA c : c.metadata.document_index = d)

SourceTypeOfRun == IF isource = "dayone" THEN DAYONE ELSE WORDPRESS

\* C19: the n >= 1 chunks of a document carry chunk_index 0, 1, ..., n-1 in
\* this order, all of them total_chunks = n, the id of their document and the
\* source type of the script; a document gives no chunk only if its text is
\* blank, and the chunks of the export are in the order of its documents
ChunkNumbering ==
    Ingested =>
        /\ \A d \in 0..(Len(documents) - 1) :
              LET cs == ChunksOfDocument(d)
              IN  /\ (cs = <<>>) <=> (strip(documents[d + 1].text) = <<>>)
                  /\ \A i \in 1..Len(cs) :
                        /\ cs[i].metadata.chunk_index = i - 1
                        /\ cs[i].metadata.total_chunks = Len(cs)
                        /\ cs[i].metadata.document_id = documents[d + 1].id
                        /\ cs[i].metadata.source_type = SourceTypeOfRun
        /\ \A i \in 1..Len(ingested) :
              /\ ingested[i].metadata.document_index \in 0..(Len(documents) - 1)
              /\ i > 1 => ingested[i - 1].metadata.document_index
                              <= ingested[i].metadata.document_index

\* the second document of an export was cut into three chunks
ChunkNumberingWitness ==
    /\ Ingested
    /\ Len(ChunksOfDocument(0)) >= 1
    /\ Len(ChunksOfDocument(1)) = 3
    /\ ingested[Len(ingested)].metadata.chunk_index = 2

\* C20: no two chunks that one ingestion run produces share an id
UniqueIds ==
    Ingested =>
        \A i \in 1..Len(ingested), j \in 1..Len(ingested) :
            i # j => ingested[i].id # ingested[j].id

\* C21: the text of every chunk that process_entry / process_post produces
\* has no white space at its start or end and is not empty
TrimmedTexts ==
    Ingested =>
        \A i \in 1..Len(ingested) :
            /\ ingested[i].text # <<>>
            /\ strip(ingested[i].text) = ingested[i].text

\* the documents of the export whose text is empty or white space only
BlankDocuments == {d \in 0..(Len(documents) - 1) : strip(documents[d + 1].text) = <<>>}

\* C22: a document whose text is empty or white space only gives no chunk;
\* when no document of the export gives a chunk the run ends without a call
\* to the embedding service or the vector store and writes nothing
BlankIsNoContent ==
    Ingested =>
        /\ \A d \in BlankDocuments : ChunksOfDocument(d) = <<>>
        /\ BlankDocuments = 0..(Len(documents) - 1) => icalls = <<>> /\ ingested = <<>>

\* an export of two blank documents was ingested
BlankIsNoContentWitness ==
    /\ Ingested
    /\ Len(documents) = 2
    /\ Cardinality(BlankDocuments) = 2
    /\ icalls = <<>>

-----------------------------------------------------------------------------
(* app/services/retrieval.py: the formatted_context of a RetrievalResult *)

\* results["documents"][idx] of the stored document `id`
StoredText(id) == <<"t">> \o ToDecimal(id)

\* the retrieved chunks as _format_context reads them: the text, and a
\* metadata dict without date, title, source and tradition
ContextChunks(cs) == [i \in 1..Len(cs) |-> [NoMetadata EXCEPT !.text = StoredText(cs[i].id)]]

\* formatted_context = self._format_context(journal_chunks, blog_chunks,
\* wisdom_chunks)
formatted_context_of(r) ==
    format_context(ContextChunks(r.journal_chunks), ContextChunks(r.blog_chunks),
                   ContextChunks(r.wisdom_chunks))

-----------------------------------------------------------------------------
(* app/routers/chat.py: the handler of POST /chat *)

\* chunk.text[:500] + "..." if len(chunk.text) > 500 else chunk.text
SourceTextLimit == 500

ELLIPSIS == <<".", ".", ".">>

\* mutant: the current message is put before the conversation history
build_messages_current_first(conversation_history, current_message) ==
    <<[role |-> "user", content |-> current_message]>>
    \o [i \in 1..Len(conversation_history) |->
           [role |-> conversation_history[i].role,
            content |-> conversation_history[i].content]]

\* _build_messages
build_messages(conversation_history, current_message) ==
    [i \in 1..Len(conversation_history) |->
        [role |-> conversation_history[i].role,
         content |-> conversation_history[i].content]]
    \o <<[role |-> "user", content |-> current_message]>>

\* _format_sources; date and title are None for the documents of the store
format_sources(cs) ==
    [i \in 1..Len(cs) |->
        [id |-> cs[i].id,
         text |-> IF Len(StoredText(cs[i].id)) > SourceTextLimit
                  THEN SubSeq(StoredText(cs[i].id), 1, SourceTextLimit) \o ELLIPSIS
                  ELSE StoredText(cs[i].id),
         source_type |-> cs[i].source_type,
         relevance_score |-> cs[i].relevance_score]]

\* mutant: every exception is answered with 503
exception_status_unavailable(exception) == 503

\* the except clauses of chat: LLMError, then ValueError, then Exception
exception_status(exception) ==
    IF exception = "LLMError" THEN 503
    ELSE IF exception = "ValueError" THEN 500
    ELSE 500

-----------------------------------------------------------------------------
(* SpecChat: one request to POST /chat, step by step, while the retrieval   *)
(* service, the vector store, the embedding service and the LLM can fail    *)

\* request.message
ChatQueries == { <<"h","e","l","l","o">>, <<"m","y"," ","B","l","o","g">> }

\* ChatMessage: role is "user" or "assistant", content is not empty
HistoryMessages ==
    {[role |-> r, content |-> c] : r \in {"user", "assistant"}, c \in {<<"a">>, <<"b">>}}

\* request.conversation_history
Histories == UNION {[1..n -> HistoryMessages] : n \in 0..MaxHistory}

\* the collection when the request arrives: empty, or a journal entry and a
\* blog post
ChatStores ==
    { <<>>,
      <<[id |-> 1, source_type |-> DAYONE, distance |-> 0],
        [id |-> 2, source_type |-> WORDPRESS, distance |-> 1]>> }

\* what a failing collaborator of the retrieval raises
CollaboratorErrors == {"Exception", "ValueError"}

InitChat ==
    /\ chat_request \in [message : ChatQueries, conversation_history : Histories]
    /\ chat_pc = "get_retrieval_service"
    /\ chat_trace = <<>>
    /\ chat_result = MakeResult(<<>>, "none")
    /\ chat_prompt = <<>>
    /\ chat_messages = <<>>
    /\ chat_exception = "none"
    /\ chat_response = NoResponse
    /\ store \in ChatStores
    /\ rstage = "idle" /\ call = NoCall /\ searches = <<>>
    /\ result = MakeResult(<<>>, "none")
    /\ initialized \in BOOLEAN
    /\ operation = "idle" /\ calls = <<>> /\ outcome = "idle" /\ by_source = <<>>
    /\ ChunkIdle
    /\ DetectIdle
    /\ SingletonIdle
    /\ FormatIdle
    /\ IngestIdle

\* a step of the try block was begun; it raised `exception` or went through
ChatStep(step, exception, then) ==
    /\ chat_trace' = Append(chat_trace, step)
    /\ chat_exception' = exception
    /\ chat_pc' = IF exception = "none" THEN then ELSE "except"

\* retrieval_service = get_retrieval_service(); the first call builds the
\* service and loads the embedding model, which can fail
ChatGetRetrievalService(exception) ==
    /\ chat_pc = "get_retrieval_service"
    /\ ChatStep("get_retrieval_service", exception, "retrieve")
    /\ UNCHANGED <<chat_request, chat_result, chat_prompt, chat_messages, chat_response>>
    /\ UNCHANGED <<chunkVars, detectVars, retrievalVars, collabVars, singletonVars,
                   formatVars, ingestVars>>

\* retrieval_result = retrieval_service.retrieve(request.message)
ChatRetrieve(faults, error) ==
    /\ chat_pc = "retrieve"
    /\ \E out \in {retrieve_call(initialized, store, DefaultTopK, chat_request.message,
                                NoTopK, NoFilter, faults)} :
          /\ ChatStep("retrieve", IF out.outcome = "raised" THEN error ELSE "none",
                      "get_system_prompt")
          /\ chat_result' = out.result
          /\ initialized' = out.initialized
    /\ UNCHANGED <<chat_request, chat_prompt, chat_messages, chat_response>>
    /\ UNCHANGED <<operation, calls, outcome, by_source>>
    /\ UNCHANGED <<chunkVars, detectVars, retrievalVars, singletonVars, formatVars,
                   ingestVars>>

\* system_prompt = get_system_prompt(retrieval_result.formatted_context)
ChatGetSystemPrompt ==
    /\ chat_pc = "get_system_prompt"
    /\ ChatStep("get_system_prompt", "none", "build_messages")
    /\ chat_prompt' = get_system_prompt(formatted_context_of(chat_result))
    /\ UNCHANGED <<chat_request, chat_result, chat_messages, chat_response>>
    /\ UNCHANGED <<chunkVars, detectVars, retrievalVars, collabVars, singletonVars,
                   formatVars, ingestVars>>

\* messages = _build_messages(request.conversation_history, request.message)
ChatBuildMessages ==
    /\ chat_pc = "build_messages"
    /\ ChatStep("build_messages", "none", "get_llm_service")
    /\ chat_messages' = build_messages(chat_request.conversation_history,
                                       chat_request.message)
    /\ UNCHANGED <<chat_request, chat_result, chat_prompt, chat_response>>
    /\ UNCHANGED <<chunkVars, detectVars, retrievalVars, collabVars, singletonVars,
                   formatVars, ingestVars>>

\* llm_service = get_llm_service(): LLMService() raises ValueError when no API
\* key is configured
ChatGetLlmService(configured) ==
    /\ chat_pc = "get_llm_service"
    /\ ChatStep("get_llm_service", IF configured THEN "none" ELSE "ValueError",
                "generate_response")
    /\ UNCHANGED <<chat_request, chat_result, chat_prompt, chat_messages, chat_response>>
    /\ UNCHANGED <<chunkVars, detectVars, retrievalVars, collabVars, singletonVars,
                   formatVars, ingestVars>>

\* response_text = llm_service.generate_response(messages, system_prompt): an
\* APIError of the client is raised as LLMError
ChatGenerateResponse(answered) ==
    /\ chat_pc = "generate_response"
    /\ ChatStep("generate_response", IF answered THEN "none" ELSE "LLMError",
                "format_sources")
    /\ UNCHANGED <<chat_request, chat_result, chat_prompt, chat_messages, chat_response>>
    /\ UNCHANGED <<chunkVars, detectVars, retrievalVars, collabVars, singletonVars,
                   formatVars, ingestVars>>

\* sources = _format_sources(retrieval_result.chunks); return ChatResponse(...)
ChatFormatSources ==
    /\ chat_pc = "format_sources"
    /\ ChatStep("format_sources", "none", "done")
    /\ chat_response' = [status |-> 200, sources |-> format_sources(chat_result.chunks)]
    /\ UNCHANGED <<chat_request, chat_result, chat_prompt, chat_messages>>
    /\ UNCHANGED <<chunkVars, detectVars, retrievalVars, collabVars, singletonVars,
                   formatVars, ingestVars>>

\* the except clauses: raise HTTPException(status_code = ...)
ChatExcept ==
    /\ chat_pc = "except"
    /\ chat_pc' = "done"
    /\ chat_response' = [status |-> exception_status(chat_exception), sources |-> <<>>]
    /\ UNCHANGED <<chat_request, chat_trace, chat_result, chat_prompt, chat_messages,
                   chat_exception>>
    /\ UNCHANGED <<chunkVars, detectVars, retrievalVars, collabVars, singletonVars,
                   formatVars, ingestVars>>

NextChat ==
    \/ \E e \in CollaboratorErrors \cup {"none"} : ChatGetRetrievalService(e)
    \/ \E f \in FaultSets, e \in CollaboratorErrors : ChatRetrieve(f, e)
    \/ ChatGetSystemPrompt
    \/ ChatBuildMessages
    \/ \E configured \in BOOLEAN : ChatGetLlmService(configured)
    \/ \E answered \in BOOLEAN : ChatGenerateResponse(answered)
    \/ ChatFormatSources
    \/ ChatExcept

SpecChat == InitChat /\ [][NextChat]_vars

-----------------------------------------------------------------------------
(* Properties of the chat endpoint *)

\* the handler has answered
Answered == chat_pc = "done"

\* the step of the try block that raised, "none" if none did
FailedStep == IF chat_exception = "none" THEN "none" ELSE chat_trace[Len(chat_trace)]

\* the steps in which a collaborator is called
CollaboratorSteps ==
    {"get_retrieval_service", "retrieve", "get_llm_service", "generate_response"}

\* C23 as stated: every collaborator failure is answered with 503
FailureUnavailable ==
    Answered /\ FailedStep \in CollaboratorSteps => chat_response.status = 503

\* C23: a failure of generate_response (LLMError) is answered with 503, every
\* other collaborator failure (the retrieval service, the vector store, the
\* embedding service, a missing API key) with 500, and no failure with 200
FailureStatus ==
    Answered =>
        /\ FailedStep = "generate_response" => chat_response.status = 503
        /\ FailedStep \in CollaboratorSteps \ {"generate_response"}
              => chat_response.status = 500
        /\ FailedStep = "none" <=> chat_response.status = 200

\* a query of the vector store failed and the request was answered with 500
FailureStatusWitness ==
    /\ Answered
    /\ FailedStep = "retrieve"
    /\ initialized
    /\ chat_response.status = 500

\* the statements of the try block, in the order of the code
Pipeline ==
    <<"get_retrieval_service", "retrieve", "get_system_prompt", "build_messages",
      "get_llm_service", "generate_response", "format_sources">>

Begun(step) == \E i \in 1..Len(chat_trace) : chat_trace[i] = step

\* C30: the steps are done in the order retrieval, prompt, LLM call, source
\* formatting; the LLM is called only after retrieve has returned and never
\* after it raised, with the conversation history in its order followed by
\* the current message as a user message; sources are returned only after
\* the LLM call succeeded
PipelineOrder ==
    /\ Len(chat_trace) <= Len(Pipeline)
    /\ chat_trace = SubSeq(Pipeline, 1, Len(chat_trace))
    /\ FailedStep = "retrieve" => ~Begun("generate_response")
    /\ Begun("generate_response") =>
          /\ Begun("retrieve") /\ Begun("get_system_prompt")
          /\ chat_result = retrieve(store, DefaultTopK, chat_request.message, NoTopK,
                                    NoFilter).result
          /\ Len(chat_messages) = Len(chat_request.conversation_history) + 1
          /\ \A i \in 1..Len(chat_request.conversation_history) :
                chat_messages[i] = chat_request.conversation_history[i]
          /\ chat_messages[Len(chat_messages)] =
                [role |-> "user", content |-> chat_request.message]
    /\ chat_response.status = 200 =>
          /\ Begun("generate_response") /\ FailedStep = "none"
          /\ chat_trace = Pipeline
    /\ chat_response.sources # <<>> => chat_response.status = 200

\* a request with two earlier messages was answered with sources
PipelineOrderWitness ==
    /\ Answered
    /\ Len(chat_request.conversation_history) = 2
    /\ chat_request.conversation_history[1] # chat_request.conversation_history[2]
    /\ chat_response.status = 200
    /\ Len(chat_response.sources) = 2

-----------------------------------------------------------------------------
(* Properties of the formatted context of a retrieval result *)

\* C28: the formatted context of a result is the sentinel exactly when the
\* result has no chunk, and the text of every chunk of the result occurs in
\* the formatted context
ContextIffChunks ==
    rstage = "returned" =>
        /\ (formatted_context_of(result) = NO_CONTEXT) <=> (result.chunks = <<>>)
        /\ \A i \in 1..Len(result.chunks) :
              Occurs(StoredText(result.chunks[i].id), formatted_context_of(result))

-----------------------------------------------------------------------------
(* Properties of the two copies of the chunker *)

\* C29: chunk_text of ingest_wordpress returns, for the same text,
\* target_tokens and max_tokens, the list that chunk_text of ingest_dayone
\* returns
ChunkersEquivalent ==
    cstage = "done" => wp_chunk_text(text, target_tokens, max_tokens) = chunks

\* a text with a paragraph that is cut into sentences came back as three
\* chunks or more from both copies
ChunkersEquivalentWitness ==
    /\ cstage = "done"
    /\ Len(chunks) >= 3
    /\ \E i \in 1..Len(split(text, ParaSep)) :
          /\ Len(strip(split(text, ParaSep)[i])) \div 4 > max_tokens
          /\ Find(strip(split(text, ParaSep)[i]), SentSep, 1) # 0
    /\ wp_chunk_text(text, target_tokens, max_tokens) = chunks

====
